---- MODULE Spec2Model ----
(***************************************************************************)
(* A model of the stratified Datalog evaluator (solver/engine.py) and of   *)
(* the rule validator (validator/rule_validator.py).                       *)
(*                                                                         *)
(* Terms are strings, as in the source: a term is a variable iff it starts *)
(* with "?".  An atom is a record [pred, args, negated]; a rule is a       *)
(* record [rule_id, fragment_id, head_pred, head_args, body].  A fact      *)
(* store is a function from predicate names (the keys of the dict) to sets *)
(* of argument tuples.  A substitution is a function from variables to     *)
(* terms.  A Python generator or set iteration, whose order is not fixed   *)
(* by the program, is modelled by the set of the values it produces, and   *)
(* every step that depends on the order chooses it nondeterministically.   *)
(***************************************************************************)
EXTENDS Integers, Sequences, FiniteSets, Bags, TLC

VARIABLES
    rules,          \* the rule list the caller passes to Evaluator(...)
    edb,            \* the facts mapping the caller passes to Evaluator(...)
    conditions,     \* condition_id -> required_facts, passed to Evaluator(...)
    pc,             \* where the Evaluator is: new, ready, stratum, round, rule,
                    \* returned, error
    err,            \* the exception that ended the last call ("" if none)
    err_preds,      \* the predicates a stratification error names
    self_rules,     \* Evaluator._rules
    self_strata,    \* Evaluator._strata
    self_facts,     \* Evaluator._facts
    s,              \* evaluate: the loop variable s
    ri,             \* _eval_stratum: position of the for loop in rules
    changed,        \* _eval_stratum: the local flag changed
    iters,          \* _eval_stratum: the local counter iters
    started,        \* history: strata whose fixed point has started in this call
    calls,          \* history: number of evaluate() calls begun on this Evaluator
    inserted,       \* history: facts inserted by the current evaluate() call
    run,            \* history: 1 for the first Evaluator, 2 for a rebuilt one
    first,          \* history: outcome of the first evaluate() call of run 1
    q_goal,         \* the last query's (goal_pred, goal_args); <<>> if none
    q_results,      \* the last query's result list, as a bag of substitutions
    rule_json,      \* the rule passed to RuleValidator.validate
    source_text,    \* the source_text passed to validate ("" when None)
    schema_errors,  \* what the JSON-Schema library reports for rule_json
    report,         \* the ValidationReport validate returned, or the exception
                    \* it raised; <<>> before
    whitelist_mode, \* ManifestIndex.whitelist_mode of the validator's index
    tuple_a,        \* the tuple of terms a passed to _unify
    tuple_b,        \* the tuple of terms b passed to _unify
    unified,        \* what _unify(a, b, {}) returned; not called before
    unified_swapped, \* what _unify(b, a, {}) returned; not called before
    goal_str,       \* the string passed to parse_goal
    parsed,         \* what parse_goal(goal_str) returned or raised; not called before
    builtin_atom,   \* a body of one builtin atom passed to _match_body
    builtin_matches, \* what _match_body yielded for it; not called before
    given_body,     \* a body passed to _safe_reorder_body
    reordered       \* what _safe_reorder_body returned for it; not called before

evars == <<rules, edb, conditions, pc, err, err_preds, self_rules, self_strata, self_facts,
           s, ri, changed, iters, started,
           calls, inserted, run, first, q_goal, q_results>>

vvars == <<rule_json, source_text, schema_errors, report, whitelist_mode>>

uvars == <<tuple_a, tuple_b, unified, unified_swapped>>

pvars == <<goal_str, parsed, builtin_atom, builtin_matches, given_body, reordered>>

vars == <<evars, vvars, uvars, pvars>>

---------------------------------------------------------------------------
(* Bounds of the model *)

MaxRules == 2       \* longest rule list passed to an Evaluator
MaxFacts == 3       \* largest number of EDB facts
MaxCalls == 2       \* evaluate() calls on one Evaluator
MaxStrataRules == 3 \* longest rule list passed to compute_strata on its own
MaxBody == 2        \* longest rule body passed to validate, the padding aside
MaxTerms == 3       \* longest tuple of terms passed to _unify on its own
MaxGoalTokens == 5  \* largest number of pieces of a string passed to parse_goal
MaxReorder == 3     \* longest body passed to _safe_reorder_body on its own
MaxExpandRules == 3 \* longest rule list whose conditions are expanded on their own

---------------------------------------------------------------------------
(* Terms, atoms, rules *)

IsVar(t) == Len(t) >= 1 /\ SubSeq(t, 1, 1) = "?"

AnyVar(args) == \E i \in 1..Len(args) : IsVar(args[i])

Atom(pred, args, negated) == [pred |-> pred, args |-> args, negated |-> negated]

Rule(rule_id, head_pred, head_args, body) ==
    [rule_id |-> rule_id, fragment_id |-> "f", head_pred |-> head_pred,
     head_args |-> head_args, body |-> body]

BUILTINS == {"ge", "gt", "le", "lt", "eq", "ne"}

Max(S) == CHOOSE x \in S : \A y \in S : y <= x

Range(f) == {f[i] : i \in DOMAIN f}

---------------------------------------------------------------------------
(* Builtins *)

\* the decimal digits and their values
DigitValue ==
    ("0" :> 0) @@ ("1" :> 1) @@ ("2" :> 2) @@ ("3" :> 3) @@ ("4" :> 4) @@
    ("5" :> 5) @@ ("6" :> 6) @@ ("7" :> 7) @@ ("8" :> 8) @@ ("9" :> 9)

\* the strings of the model's universe float() accepts: the numerals of one
\* to sixteen decimal digits (the other strings of the universe are names,
\* on which float() raises ValueError)
IsNumeral(str) ==
    /\ Len(str) \in 1..16
    /\ \A i \in 1..Len(str) : SubSeq(str, i, i) \in DOMAIN DigitValue

\* a natural number below 10^17 as <<n \div 10^8, n % 10^8>>
Wide(hi, lo) == <<hi + (lo \div 100000000), lo % 100000000>>

WideLess(m, n) == m[1] < n[1] \/ (m[1] = n[1] /\ m[2] < n[2])

\* the number a numeral denotes, read digit by digit
RECURSIVE DecimalValue(_, _, _)
DecimalValue(str, i, acc) ==
    IF i > Len(str) THEN acc
    ELSE DecimalValue(str, i + 1,
             Wide(acc[1] * 10, acc[2] * 10 + DigitValue[SubSeq(str, i, i)]))

\* 2^53: from here on the doubles are the even numbers (up to 2^54, which no
\* numeral of sixteen digits reaches)
TwoTo53 == <<90071992, 54740992>>

\* float(str) of a numeral: the nearest double, a tie going to the double
\* with the even mantissa
float(str) ==
    LET n == DecimalValue(str, 1, <<0, 0>>)
    IN  IF WideLess(n, TwoTo53) \/ n[2] % 2 = 0 THEN n
        ELSE IF (n[2] + 1) % 4 = 0 THEN Wide(n[1], n[2] + 1)
        ELSE Wide(n[1], n[2] - 1)

_eval_builtin(pred, args) ==
    IF Len(args) # 2 THEN FALSE
    ELSE LET a_raw == args[1]
             b_raw == args[2]
         IN  IF IsNumeral(a_raw) /\ IsNumeral(b_raw) /\ pred \in BUILTINS
             THEN LET a == float(a_raw)
                      b == float(b_raw)
                  IN  CASE pred = "ge" -> ~WideLess(a, b)
                        [] pred = "gt" -> WideLess(b, a)
                        [] pred = "le" -> ~WideLess(b, a)
                        [] pred = "lt" -> WideLess(a, b)
                        [] pred = "eq" -> a = b
                        [] pred = "ne" -> a # b
             ELSE IF pred = "eq" THEN a_raw = b_raw
                  ELSE IF pred = "ne" THEN a_raw # b_raw
                  ELSE FALSE

---------------------------------------------------------------------------
(* Substitutions *)

EmptySubst == << >>

Bind(subst, v, t) ==
    [x \in (DOMAIN subst) \cup {v} |-> IF x = v THEN t ELSE subst[x]]

RECURSIVE WalkSeen(_, _, _)
WalkSeen(term, subst, seen) ==
    IF IsVar(term) /\ term \in DOMAIN subst
    THEN IF term \in seen THEN term
         ELSE WalkSeen(subst[term], subst, seen \cup {term})
    ELSE term

\* a walk that does not look the term up
_walk_no_lookup(term, subst) == term

_walk(term, subst) == WalkSeen(term, subst, {})

_apply(args, subst) == [i \in 1..Len(args) |-> _walk(args[i], subst)]

\* the for loop of _unify when only a variable of the pattern is bound
RECURSIVE UnifyFromPatternOnly(_, _, _, _)
UnifyFromPatternOnly(pattern, ground, sb, i) ==
    IF i > Len(pattern) THEN {sb}
    ELSE LET p == _walk(pattern[i], sb)
             g == _walk(ground[i], sb)
         IN  IF p = g THEN UnifyFromPatternOnly(pattern, ground, sb, i + 1)
             ELSE IF IsVar(p)
             THEN UnifyFromPatternOnly(pattern, ground, Bind(sb, p, g), i + 1)
             ELSE {}

\* the for loop of _unify from position i on; {} stands for None
RECURSIVE UnifyFrom(_, _, _, _)
UnifyFrom(pattern, ground, sb, i) ==
    IF i > Len(pattern) THEN {sb}
    ELSE LET p == _walk(pattern[i], sb)
             g == _walk(ground[i], sb)
         IN  IF p = g THEN UnifyFrom(pattern, ground, sb, i + 1)
             ELSE IF IsVar(p) THEN UnifyFrom(pattern, ground, Bind(sb, p, g), i + 1)
             ELSE IF IsVar(g) THEN UnifyFrom(pattern, ground, Bind(sb, g, p), i + 1)
             ELSE {}

_unify(pattern, ground, subst) ==
    IF Len(pattern) # Len(ground) THEN {}
    ELSE UnifyFrom(pattern, ground, subst, 1)

---------------------------------------------------------------------------
(* Fact stores *)

Get(facts, pred) == IF pred \in DOMAIN facts THEN facts[pred] ELSE {}

\* a store update that overwrites the fact set instead of adding to it
AddFactsOverwrite(facts, pred, ts) ==
    [p \in (DOMAIN facts) \cup {pred} |-> IF p = pred THEN ts ELSE facts[p]]

\* facts.setdefault(pred, set()) followed by pred_facts.add(t) for each t of ts
AddFacts(facts, pred, ts) ==
    [p \in (DOMAIN facts) \cup {pred} |->
        IF p = pred THEN Get(facts, pred) \cup ts ELSE facts[p]]

\* the caller's mapping when the Evaluator keeps it as its own store
CallerFactsShared(facts, own) == own

\* the caller's facts mapping after the Evaluator wrote to its store own:
\* __init__ built a new dict with a new set for every key, so the caller's
\* mapping and its sets are other objects than the ones written to
CallerFacts(facts, own) == facts

\* the caller's rule list after __init__ assigned the reordered bodies own:
\* expand_meets_condition made a new Rule with a new body list for every
\* rule, so the caller's rules are other objects than the ones assigned to
CallerRules(rs, own) == rs

\* {k: set(v) for k, v in facts.items()}
CopyFacts(facts) == [p \in DOMAIN facts |-> facts[p]]

FactSet(facts) == UNION {{<<p, t>> : t \in facts[p]} : p \in DOMAIN facts}

---------------------------------------------------------------------------
(* Expansion of meets_condition/2 *)

QuoteChars == {"\"", "'"}

RECURSIVE LStrip(_)
LStrip(str) ==
    IF Len(str) > 0 /\ SubSeq(str, 1, 1) \in QuoteChars
    THEN LStrip(SubSeq(str, 2, Len(str)))
    ELSE str

RECURSIVE RStrip(_)
RStrip(str) ==
    IF Len(str) > 0 /\ SubSeq(str, Len(str), Len(str)) \in QuoteChars
    THEN RStrip(SubSeq(str, 1, Len(str) - 1))
    ELSE str

\* str.strip("\"'")
StripQuotes(str) == RStrip(LStrip(str))

\* "" stands for None
RECURSIVE FirstVarFrom(_, _, _)
FirstVarFrom(atoms, i, j) ==
    IF i > Len(atoms) THEN ""
    ELSE IF j > Len(atoms[i].args) THEN FirstVarFrom(atoms, i + 1, 1)
    ELSE IF IsVar(atoms[i].args[j]) THEN atoms[i].args[j]
    ELSE FirstVarFrom(atoms, i, j + 1)

_first_var(atoms) == FirstVarFrom(atoms, 1, 1)

_freshen(atoms, entity_var, replace_entity_with, counter) ==
    [i \in 1..Len(atoms) |->
        Atom(atoms[i].pred,
             [j \in 1..Len(atoms[i].args) |->
                LET arg == atoms[i].args[j]
                IN  IF ~IsVar(arg) THEN arg
                    ELSE IF arg = entity_var THEN replace_entity_with
                    ELSE arg \o "_mc" \o ToString(counter)],
             atoms[i].negated)]

\* the inner for loop when every expansion uses the counter value the loop
\* began with
RECURSIVE ExpandBodySameCounter(_, _, _, _)
ExpandBodySameCounter(body, i, conds, counter) ==
    IF i > Len(body) THEN [body |-> << >>, counter |-> counter]
    ELSE LET atom == body[i]
             known == /\ atom.pred = "meets_condition"
                      /\ Len(atom.args) = 2
                      /\ StripQuotes(atom.args[2]) \in DOMAIN conds
             req_facts == conds[StripQuotes(atom.args[2])]
             entity_var == _first_var(req_facts)
             here == IF ~known THEN <<atom>>
                     ELSE IF entity_var # ""
                          THEN _freshen(req_facts, entity_var, atom.args[1], counter)
                          ELSE req_facts
             rest == ExpandBodySameCounter(body, i + 1, conds, counter)
         IN  [body |-> here \o rest.body, counter |-> rest.counter]

\* the inner for loop of expand_meets_condition from atom i on; counter is the
\* next value of itertools.count(); gives the new body and the counter after it
RECURSIVE ExpandBody(_, _, _, _)
ExpandBody(body, i, conds, counter) ==
    IF i > Len(body) THEN [body |-> << >>, counter |-> counter]
    ELSE LET atom == body[i]
             known == /\ atom.pred = "meets_condition"
                      /\ Len(atom.args) = 2
                      /\ StripQuotes(atom.args[2]) \in DOMAIN conds
             req_facts == conds[StripQuotes(atom.args[2])]
             entity_var == _first_var(req_facts)
             here == IF ~known THEN <<atom>>
                     ELSE IF entity_var # ""
                          THEN _freshen(req_facts, entity_var, atom.args[1], counter)
                          ELSE req_facts
             rest == ExpandBody(body, i + 1, conds, IF known THEN counter + 1 ELSE counter)
         IN  [body |-> here \o rest.body, counter |-> rest.counter]

RECURSIVE ExpandRules(_, _, _, _)
ExpandRules(rs, i, conds, counter) ==
    IF i > Len(rs) THEN << >>
    ELSE LET e == ExpandBody(rs[i].body, 1, conds, counter)
         IN  <<[rule_id |-> rs[i].rule_id, fragment_id |-> rs[i].fragment_id,
                head_pred |-> rs[i].head_pred, head_args |-> rs[i].head_args,
                body |-> e.body]>>
             \o ExpandRules(rs, i + 1, conds, e.counter)

expand_meets_condition(rs, conds) == ExpandRules(rs, 1, conds, 0)

---------------------------------------------------------------------------
(* Body reordering *)

\* a body that keeps the builtin atoms, negated or not, in the middle group
_safe_reorder_body_by_pred(body) ==
    LET IsPositive(a) == ~a.negated /\ a.pred \notin BUILTINS
        IsBuiltin(a)  == a.pred \in BUILTINS
        IsNegation(a) == a.negated /\ a.pred \notin BUILTINS
    IN  SelectSeq(body, IsPositive) \o SelectSeq(body, IsBuiltin)
            \o SelectSeq(body, IsNegation)

\* positive + builtins + negations
_safe_reorder_body(body) ==
    LET IsPositive(a) == ~a.negated /\ a.pred \notin BUILTINS
        IsBuiltin(a)  == ~a.negated /\ a.pred \in BUILTINS
        IsNegation(a) == a.negated
    IN  SelectSeq(body, IsPositive) \o SelectSeq(body, IsBuiltin)
            \o SelectSeq(body, IsNegation)

\* steps 1 and 2 of Evaluator.__init__
Prepare(rs, conds) ==
    LET expanded == expand_meets_condition(rs, conds)
    IN  [i \in 1..Len(expanded) |->
            [expanded[i] EXCEPT !.body = _safe_reorder_body(expanded[i].body)]]

---------------------------------------------------------------------------
(* Stratification *)

\* the body atoms, builtins skipped, of the rules whose head predicate is p
DepAtoms(rs, p) ==
    {a \in UNION {{rs[i].body[j] : j \in 1..Len(rs[i].body)} :
                     i \in {k \in 1..Len(rs) : rs[k].head_pred = p}} :
        a.pred \notin BUILTINS}

HeadPreds(rs) == {rs[i].head_pred : i \in 1..Len(rs)}

\* the set preds and the dicts pos_deps, neg_deps built by the first loop of
\* compute_strata (the dicts have the head predicates as keys)
StrataPreds(rs) ==
    HeadPreds(rs) \cup UNION {{a.pred : a \in DepAtoms(rs, p)} : p \in HeadPreds(rs)}

PosDepsOf(rs) ==
    [p \in HeadPreds(rs) |-> {a.pred : a \in {b \in DepAtoms(rs, p) : ~b.negated}}]

NegDepsOf(rs) ==
    [p \in HeadPreds(rs) |-> {a.pred : a \in {b \in DepAtoms(rs, p) : b.negated}}]

\* deps.get(p, set())
DepsGet(deps, p) == IF p \in DOMAIN deps THEN deps[p] ELSE {}

\* an iteration budget that does not grow with the number of predicates
max_iter_fixed(n) == 2

\* max_iter for len(preds) = n
max_iter(n) == n * n + n + 2

\* stratum[p] after the loop over pos_deps[p]
AfterPos(pos_deps, st, p) == Max({st[p]} \cup {st[dep] : dep \in DepsGet(pos_deps, p)})

\* a negative dependency treated like a positive one
NeededNotStrict(st, dep) == st[dep]

\* needed = stratum[dep] + 1
Needed(st, dep) == st[dep] + 1

\* stratum[p] after the loop over neg_deps[p], entered with stratum[p] = v.
\* The loop reads stratum[dep] when it reaches dep: when p is among its own
\* negative dependencies the result depends on where the set iteration meets
\* p, so every split of the other dependencies (before, after) is a result.
AfterNeg(neg_deps, st, p, v) ==
    LET others == DepsGet(neg_deps, p) \ {p}
    IN  IF p \notin DepsGet(neg_deps, p)
        THEN {Max({v} \cup {Needed(st, dep) : dep \in others})}
        ELSE {Max({Max({v} \cup {Needed(st, dep) : dep \in before}) + 1}
                      \cup {Needed(st, dep) : dep \in others \ before}) :
                 before \in SUBSET others}

\* the body of "for p in preds" for one p: the possible maps after it
VisitPred(pos_deps, neg_deps, st, p) ==
    {[st EXCEPT ![p] = v] : v \in AfterNeg(neg_deps, st, p, AfterPos(pos_deps, st, p))}

\* the orders in which "for p in preds" can enumerate the set preds; the set
\* is not modified after it is built, so every pass enumerates it the same way
RECURSIVE Orders(_)
Orders(S) ==
    IF S = {} THEN {<< >>}
    ELSE UNION {{<<x>> \o rest : rest \in Orders(S \ {x})} : x \in S}

\* one pass of "for p in preds" from position i of the order on: the possible
\* maps after the pass
RECURSIVE PassFrom(_, _, _, _, _)
PassFrom(pos_deps, neg_deps, st, order, i) ==
    IF i > Len(order) THEN {st}
    ELSE UNION {PassFrom(pos_deps, neg_deps, st2, order, i + 1) :
                   st2 \in VisitPred(pos_deps, neg_deps, st, order[i])}

\* the while loop of compute_strata after n iterations, frontier holding the
\* possible values of (stratum, changed), and the statements after it: the
\* possible outcomes of the call, a returned map or the ValueError
RECURSIVE StrataLoop(_, _, _, _, _)
StrataLoop(pos_deps, neg_deps, order, frontier, n) ==
    LET running == {f \in frontier : f.changed /\ n < max_iter(Len(order))}
        outcomes == {IF n >= max_iter(Len(order))
                     THEN [raised |-> TRUE, stratum |-> << >>]
                     ELSE [raised |-> FALSE, stratum |-> f.stratum] :
                        f \in frontier \ running}
    IN  IF running = {} THEN outcomes
        ELSE outcomes \cup
             StrataLoop(pos_deps, neg_deps, order,
                 UNION {{[stratum |-> st2, changed |-> st2 # f.stratum] :
                            st2 \in PassFrom(pos_deps, neg_deps, f.stratum, order, 1)} :
                           f \in running},
                 n + 1)

\* the possible outcomes of compute_strata(rs)
compute_strata(rs) ==
    UNION {StrataLoop(PosDepsOf(rs), NegDepsOf(rs), order,
                      {[stratum |-> [p \in StrataPreds(rs) |-> 0], changed |-> TRUE]}, 0) :
              order \in Orders(StrataPreds(rs))}

\* reachable(start) of _find_neg_cycle_preds, over all_deps
RECURSIVE ReachClosure(_, _, _)
ReachClosure(all_deps, visited, frontier) ==
    IF frontier \subseteq visited THEN visited
    ELSE ReachClosure(all_deps, visited \cup frontier,
             UNION {DepsGet(all_deps, n) : n \in frontier})

reachable(all_deps, start) == ReachClosure(all_deps, {}, {start})

_find_neg_cycle_preds(neg_deps, all_deps, preds) ==
    UNION {{pq[1], pq[2]} : pq \in
              {x \in preds \X preds :
                  x[2] \in DepsGet(neg_deps, x[1]) /\ x[1] \in reachable(all_deps, x[2])}}

\* the set cycle computed by compute_strata when it raises
CyclePreds(rs) ==
    _find_neg_cycle_preds(
        NegDepsOf(rs),
        [p \in StrataPreds(rs) |-> DepsGet(PosDepsOf(rs), p) \cup DepsGet(NegDepsOf(rs), p)],
        StrataPreds(rs))

---------------------------------------------------------------------------
(* Body matching *)

\* the substitutions _match_body(body, facts, subst, start) yields
RECURSIVE _match_body(_, _, _, _)
_match_body(body, facts, subst, start) ==
    IF start > Len(body) THEN {subst}
    ELSE LET atom == body[start]
             grounded == _apply(atom.args, subst)
         IN  IF atom.pred \in BUILTINS
             THEN IF AnyVar(grounded) THEN {}
                  ELSE IF _eval_builtin(atom.pred, grounded) # atom.negated
                       THEN _match_body(body, facts, subst, start + 1)
                       ELSE {}
             ELSE IF atom.negated
             THEN IF AnyVar(grounded) THEN {}
                  ELSE IF grounded \notin Get(facts, atom.pred)
                       THEN _match_body(body, facts, subst, start + 1)
                       ELSE {}
             ELSE UNION {UNION {_match_body(body, facts, new_subst, start + 1) :
                                   new_subst \in _unify(atom.args, fact_args, subst)} :
                            fact_args \in Get(facts, atom.pred)}

\* the heads a set of substitutions gives when a head with a variable left
\* is not skipped
GroundHeadsUnfiltered(rule, substs) ==
    {_apply(rule.head_args, sb) : sb \in substs}

\* the ground heads a set of substitutions gives: _apply(rule.head_args, subst),
\* skipped when a variable is left
GroundHeads(rule, substs) ==
    {h \in {_apply(rule.head_args, sb) : sb \in substs} : ~AnyVar(h)}

---------------------------------------------------------------------------
(* The inputs the model draws from *)

RulePool ==
    << Rule("r1", "reach", <<"?X", "?Y">>, <<Atom("edge", <<"?X", "?Y">>, FALSE)>>),
       Rule("r2", "reach", <<"?X", "?Z">>,
            <<Atom("edge", <<"?X", "?Y">>, FALSE), Atom("reach", <<"?Y", "?Z">>, FALSE)>>),
       Rule("r3", "p", <<"?X">>,
            <<Atom("q", <<"?X">>, TRUE), Atom("dom", <<"?X">>, FALSE)>>),
       Rule("r4", "q", <<"?Y">>, <<Atom("dom", <<"?X">>, FALSE)>>),
       Rule("r5", "q", <<"?X">>, <<Atom("reach", <<"?X", "?X">>, FALSE)>>),
       Rule("r6", "dom", <<"?X">>,
            <<Atom("ne", <<"?X", "?Y">>, FALSE), Atom("edge", <<"?X", "?Y">>, FALSE)>>),
       Rule("r7", "p", <<"?X">>,
            <<Atom("meets_condition", <<"?X", "'linked'">>, FALSE)>>) >>

CondTable ==
    "linked" :> <<Atom("edge", <<"?U", "?V">>, FALSE), Atom("dom", <<"?V">>, FALSE)>>

FactPool ==
    { <<"edge", <<"a", "b">> >>, <<"edge", <<"b", "c">> >>, <<"edge", <<"c", "d">> >>,
      <<"dom", <<"b">> >>, <<"reach", <<"b", "b">> >> }

\* rule lists: up to MaxRules different rules of the pool, in any order
Programs ==
    UNION {{[i \in 1..n |-> RulePool[f[i]]] :
               f \in {g \in [1..n -> 1..Len(RulePool)] :
                         \A i, j \in 1..n : i # j => g[i] # g[j]}} :
              n \in 0..MaxRules}

\* the Facts dict load_facts_json builds from a list of facts
FactsOf(fs) ==
    [p \in {f[1] : f \in fs} |-> {f[2] : f \in {g \in fs : g[1] = p}}]

EDBs == {FactsOf(fs) : fs \in {x \in SUBSET FactPool : Cardinality(x) <= MaxFacts}}

NoOutcome == [status |-> "none", facts |-> << >>, rules |-> << >>]

\* no Evaluator has been constructed yet
NoEvaluator ==
    /\ pc = "new"
    /\ err = ""
    /\ err_preds = {}
    /\ self_rules = << >>
    /\ self_strata = << >>
    /\ self_facts = << >>
    /\ s = 0
    /\ ri = 0
    /\ changed = FALSE
    /\ iters = 0
    /\ started = {}
    /\ calls = 0
    /\ inserted = {}
    /\ run = 1
    /\ first = NoOutcome
    /\ q_goal = << >>
    /\ q_results = EmptyBag

\* the value of unified and unified_swapped before the call
NotCalled == [called |-> FALSE, result |-> {}]

\* _unify has not been called
NoUnification ==
    /\ tuple_a = << >>
    /\ tuple_b = << >>
    /\ unified = NotCalled
    /\ unified_swapped = NotCalled

\* neither parse_goal nor _match_body on a builtin atom has been called
NoCalls ==
    /\ goal_str = ""
    /\ parsed = NotCalled
    /\ builtin_atom = << >>
    /\ builtin_matches = NotCalled
    /\ given_body = << >>
    /\ reordered = NotCalled

\* validate has not been called
NoValidation ==
    /\ rule_json = << >>
    /\ source_text = ""
    /\ schema_errors = << >>
    /\ report = << >>
    /\ whitelist_mode = "allow_only_listed"

Init ==
    /\ rules \in Programs
    /\ edb \in EDBs
    /\ conditions = CondTable
    /\ NoEvaluator
    /\ NoCalls
    /\ NoUnification
    /\ NoValidation

---------------------------------------------------------------------------
(* Evaluator.__init__ *)

\* the local list expanded of __init__ after step 2
Expanded == Prepare(rules, conditions)

NoQuery == q_goal' = << >> /\ q_results' = EmptyBag

\* Evaluator.__init__: expansion, reordering, compute_strata, and either the
\* stratification error or the stored strata, rules and copy of the facts
Construct ==
    /\ pc = "new"
    /\ \E outcome \in compute_strata(Expanded) :
          IF outcome.raised
          THEN /\ pc' = "error"
               /\ err' = "NotStratifiable"
               /\ err_preds' = CyclePreds(Expanded)
               /\ first' = IF run = 1
                           THEN [status |-> "NotStratifiable", facts |-> << >>, rules |-> rules]
                           ELSE first
               /\ UNCHANGED <<self_rules, self_strata, self_facts>>
          ELSE /\ pc' = "ready"
               /\ self_strata' = outcome.stratum
               /\ self_rules' = Expanded
               /\ self_facts' = CopyFacts(edb)
               /\ UNCHANGED <<err, err_preds, first>>
    /\ NoQuery
    /\ UNCHANGED vvars
    /\ UNCHANGED uvars
    /\ UNCHANGED pvars
    /\ rules' = CallerRules(rules, Expanded)
    /\ UNCHANGED <<edb, conditions, s, ri, changed, iters, started, calls,
                   inserted, run>>

---------------------------------------------------------------------------
(* Evaluator.evaluate and Evaluator._eval_stratum *)

_MAX_STRATUM_ITERS == 100000

\* self._strata.get(pred, 0)
StratumOf(pred) == IF pred \in DOMAIN self_strata THEN self_strata[pred] ELSE 0

max_stratum == Max({0} \cup {self_strata[p] : p \in DOMAIN self_strata})

\* the strata visited from the highest down
StratumRangeDescending == [i \in 1..(max_stratum + 1) |-> max_stratum + 1 - i]

\* range(max_stratum + 1): the strata in the order evaluate visits them
StratumRange == [i \in 1..(max_stratum + 1) |-> i - 1]

\* the list stratum_rules of evaluate for s = StratumRange[k]
StratumRules(k) ==
    LET InStratum(r) == StratumOf(r.head_pred) = StratumRange[k]
    IN  SelectSeq(self_rules, InStratum)

\* position in the body of the last positive non-builtin atom on the rule's own
\* head predicate, whose fact set the suspended matcher enumerates while
\* _eval_stratum adds to it; 0 when there is none or the store has no such key
LiveIndex(rule, facts) ==
    LET own == {i \in 1..Len(rule.body) :
                   /\ rule.body[i].pred = rule.head_pred
                   /\ ~rule.body[i].negated
                   /\ rule.body[i].pred \notin BUILTINS}
    IN  IF own = {} \/ rule.head_pred \notin DOMAIN facts THEN 0 ELSE Max(own)

\* evaluate() is entered (s indexes StratumRange from 1)
EnterEvaluate ==
    /\ calls' = calls + 1
    /\ inserted' = {}
    /\ started' = {}
    /\ s' = 1
    /\ pc' = "stratum"
    /\ err' = ""
    /\ NoQuery
    /\ UNCHANGED vvars
    /\ UNCHANGED uvars
    /\ UNCHANGED pvars
    /\ UNCHANGED <<rules, edb, conditions, err_preds, self_rules, self_strata,
                   self_facts, ri, changed, iters, run, first>>

\* the first evaluate() call on a constructed Evaluator
Evaluate ==
    /\ pc = "ready"
    /\ EnterEvaluate

\* the caller calls evaluate() again on the same Evaluator, after the
\* previous call returned or raised
EvaluateAgain ==
    /\ pc \in {"returned", "error"}
    /\ err # "NotStratifiable"
    /\ calls < MaxCalls
    /\ EnterEvaluate

\* the orders of a list
ListOrders(list) ==
    {[i \in 1..Len(list) |-> list[f[i]]] :
        f \in {g \in [1..Len(list) -> 1..Len(list)] :
                  \A i, j \in 1..Len(list) : i # j => g[i] # g[j]}}

\* the caller builds a second Evaluator from the same rules, in some order,
\* the same facts and the same conditions
Rebuild ==
    /\ pc \in {"returned", "error"}
    /\ run = 1
    /\ run' = 2
    /\ rules' \in ListOrders(rules)
    /\ pc' = "new"
    /\ err' = ""
    /\ err_preds' = {}
    /\ self_rules' = << >>
    /\ self_strata' = << >>
    /\ self_facts' = << >>
    /\ s' = 0
    /\ ri' = 0
    /\ changed' = FALSE
    /\ iters' = 0
    /\ started' = {}
    /\ calls' = 0
    /\ inserted' = {}
    /\ NoQuery
    /\ UNCHANGED vvars
    /\ UNCHANGED uvars
    /\ UNCHANGED pvars
    /\ UNCHANGED <<edb, conditions, first>>

\* the for loop of evaluate takes the next stratum and enters _eval_stratum
BeginStratum ==
    /\ pc = "stratum"
    /\ s <= Len(StratumRange)
    /\ started' = started \cup {StratumRange[s]}
    /\ changed' = TRUE
    /\ iters' = 0
    /\ pc' = "round"
    /\ NoQuery
    /\ UNCHANGED vvars
    /\ UNCHANGED uvars
    /\ UNCHANGED pvars
    /\ UNCHANGED <<rules, edb, conditions, err, err_preds, self_rules, self_strata,
                   self_facts, s, ri, calls, inserted, run, first>>

\* the while loop of _eval_stratum starts a round, or raises at the cap
BeginRound ==
    /\ pc = "round"
    /\ changed
    /\ IF iters >= _MAX_STRATUM_ITERS
       THEN /\ pc' = "error"
            /\ err' = "FixedPointOverrun"
            /\ first' = IF run = 1 /\ calls = 1
                        THEN [status |-> "FixedPointOverrun", facts |-> self_facts,
                              rules |-> rules]
                        ELSE first
            /\ UNCHANGED <<changed, iters, ri>>
       ELSE /\ changed' = FALSE
            /\ iters' = iters + 1
            /\ ri' = 1
            /\ pc' = IF Len(StratumRules(s)) = 0 THEN "round" ELSE "rule"
            /\ UNCHANGED <<err, first>>
    /\ NoQuery
    /\ UNCHANGED vvars
    /\ UNCHANGED uvars
    /\ UNCHANGED pvars
    /\ UNCHANGED <<rules, edb, conditions, err_preds, self_rules, self_strata,
                   self_facts, s, started, calls, inserted, run>>

\* the flag changed when it is set for every head the stream gives, new or not
ChangedOnAnyHead(flag, heads, pred_facts) == flag \/ heads # {}

\* the flag changed after the heads of a rule: set when a head is not yet in
\* pred_facts
Changed(flag, heads, pred_facts) == flag \/ heads \ pred_facts # {}

\* the body of "for rule in rules" for one rule, its stream consumed to the end
EvalRule ==
    /\ pc = "rule"
    /\ LET rule == StratumRules(s)[ri]
           heads == GroundHeads(rule, _match_body(rule.body, self_facts, EmptySubst, 1))
           new == heads \ Get(self_facts, rule.head_pred)
       IN  /\ LiveIndex(rule, self_facts) = 0 \/ new = {}
           /\ self_facts' = IF heads = {} THEN self_facts
                            ELSE AddFacts(self_facts, rule.head_pred, heads)
           /\ inserted' = inserted \cup {<<rule.head_pred, h>> : h \in new}
           /\ changed' = Changed(changed, heads, Get(self_facts, rule.head_pred))
    /\ IF ri = Len(StratumRules(s))
       THEN pc' = "round" /\ ri' = 0
       ELSE pc' = "rule" /\ ri' = ri + 1
    /\ NoQuery
    /\ UNCHANGED vvars
    /\ UNCHANGED uvars
    /\ UNCHANGED pvars
    /\ edb' = CallerFacts(edb, self_facts')
    /\ UNCHANGED <<rules, conditions, err, err_preds, self_rules, self_strata,
                   s, iters, started, calls, run, first>>

\* the body of "for rule in rules" for a rule that matches on its own head
\* predicate and derives a new head: the tuple is added to the set the
\* suspended matcher enumerates, the atoms after that one are matched to the
\* end, and the next step of the enumeration raises
\* RuntimeError("Set changed size during iteration")
EvalRuleSetChanged ==
    /\ pc = "rule"
    /\ LET rule == StratumRules(s)[ri]
           k == LiveIndex(rule, self_facts)
           old == Get(self_facts, rule.head_pred)
       IN  /\ k # 0
           /\ \E prefix \in _match_body(SubSeq(rule.body, 1, k), self_facts, EmptySubst, 1) :
                 LET new == GroundHeads(rule, _match_body(rule.body, self_facts, prefix, k + 1))
                                \ old
                 IN  /\ new # {}
                     /\ self_facts' = AddFacts(self_facts, rule.head_pred, new)
                     /\ inserted' = inserted \cup {<<rule.head_pred, h>> : h \in new}
                     /\ first' = IF run = 1 /\ calls = 1
                                 THEN [status |-> "RuntimeError",
                                       facts |-> AddFacts(self_facts, rule.head_pred, new),
                                       rules |-> rules]
                                 ELSE first
    /\ pc' = "error"
    /\ err' = "RuntimeError"
    /\ changed' = FALSE /\ iters' = 0 /\ ri' = 0
    /\ NoQuery
    /\ UNCHANGED vvars
    /\ UNCHANGED uvars
    /\ UNCHANGED pvars
    /\ edb' = CallerFacts(edb, self_facts')
    /\ UNCHANGED <<rules, conditions, err_preds, self_rules, self_strata,
                   s, started, calls, run>>

\* the while loop of _eval_stratum ends and evaluate goes on to the next stratum
EndStratum ==
    /\ pc = "round"
    /\ ~changed
    /\ s' = s + 1
    /\ iters' = 0
    /\ pc' = "stratum"
    /\ NoQuery
    /\ UNCHANGED vvars
    /\ UNCHANGED uvars
    /\ UNCHANGED pvars
    /\ UNCHANGED <<rules, edb, conditions, err, err_preds, self_rules, self_strata,
                   self_facts, ri, changed, started, calls, inserted, run, first>>

\* evaluate returns dict(self._facts)
Return ==
    /\ pc = "stratum"
    /\ s > Len(StratumRange)
    /\ pc' = "returned"
    /\ err' = ""
    /\ first' = IF run = 1 /\ calls = 1
                THEN [status |-> "returned", facts |-> self_facts, rules |-> rules]
                ELSE first
    /\ NoQuery
    /\ UNCHANGED vvars
    /\ UNCHANGED uvars
    /\ UNCHANGED pvars
    /\ UNCHANGED <<rules, edb, conditions, err_preds, self_rules, self_strata,
                   self_facts, s, ri, changed, iters, started, calls, inserted, run>>

---------------------------------------------------------------------------
(* Evaluator.query *)

GoalPreds == {"reach", "dom", "absent"}

GoalTerms == {"?X", "?Y", "a", "b"}

Goals == GoalPreds \X ({<<t>> : t \in GoalTerms} \cup (GoalTerms \X GoalTerms))

\* one substitution is appended for each tuple of the fact set that unifies
QueryResults(goal_pred, goal_args) ==
    LET hits == {t \in Get(self_facts, goal_pred) : _unify(goal_args, t, EmptySubst) # {}}
        Sub(t) == CHOOSE sb \in _unify(goal_args, t, EmptySubst) : TRUE
        subs == {Sub(t) : t \in hits}
    IN  [sb \in subs |-> Cardinality({t \in hits : Sub(t) = sb})]

query ==
    /\ pc \in {"ready", "returned"} \/ (pc = "error" /\ err # "NotStratifiable")
    /\ \E goal \in Goals :
          /\ q_goal' = goal
          /\ q_results' = QueryResults(goal[1], goal[2])
    /\ UNCHANGED <<rules, edb, conditions, pc, err, err_preds, self_rules,
                   self_strata, self_facts, s, ri, changed, iters, started, calls,
                   inserted, run, first>>
    /\ UNCHANGED vvars
    /\ UNCHANGED uvars
    /\ UNCHANGED pvars

---------------------------------------------------------------------------
(* The rule validator: JSON values and the manifest index *)

\* A JSON object is a function from its keys; a missing key is a key outside
\* the domain.  d.get(key, default):
GetOr(d, key, default) == IF key \in DOMAIN d THEN d[key] ELSE default

\* JSON null, Python's None, where a value of another type is expected
None == [json_type |-> "null"]

\* The Python type of a JSON value, read off the first character of its
\* printed form: a string, an integer, a list or an object.
JsonKind(v) == SubSeq(ToString(v), 1, 1)

\* v is None
IsNone(v) == JsonKind(v) = "[" /\ v = None

isinstance_str(v) == JsonKind(v) = "\""

isinstance_int(v) == JsonKind(v) \in {"-", "0", "1", "2", "3", "4", "5", "6", "7", "8", "9"}

isinstance_list(v) == JsonKind(v) = "<"

\* (the function with no key stands for {} as well as for [])
isinstance_dict(v) ==
    \/ JsonKind(v) = "[" /\ ~IsNone(v)
    \/ JsonKind(v) = "<" /\ v = << >>

\* the errors are records of the ValidationError's code, path and the value
\* its details name (a variable, a predicate; "" when there is none)
Error(code, path, about) == [code |-> code, path |-> path, about |-> about]

\* the limit on errors after which validate skips the remaining stages
MAX_ERRORS == 20

\* _default_allowed_in(io): (head, body, negated_body)
_default_allowed_in(io) ==
    CASE io = "input" -> <<FALSE, TRUE, FALSE>>
      [] io = "derived" -> <<TRUE, TRUE, FALSE>>
      [] OTHER -> <<TRUE, TRUE, TRUE>>

\* ManifestIndex._build_entry(p); enum_arg_index and allowed_values are {}
\* for None, else {the index} and {the allowed set}
_build_entry(p) ==
    LET io == GetOr(p, "io", "input")
        ai == IF "allowed_in" \in DOMAIN p
              THEN <<GetOr(p.allowed_in, "head", TRUE), GetOr(p.allowed_in, "body", TRUE),
                     GetOr(p.allowed_in, "negated_body", FALSE)>>
              ELSE _default_allowed_in(io)
    IN  [name |-> p.name,
         arity |-> p.arity,
         pred |-> GetOr(p, "pred", p.name \o "/" \o ToString(p.arity)),
         io |-> io,
         kind |-> GetOr(p, "kind", "domain"),
         allowed_in_head |-> ai[1],
         allowed_in_body |-> ai[2],
         allowed_in_negated_body |-> ai[3],
         enum_arg_index |-> IF "value_domain" \in DOMAIN p
                               /\ "enum_arg_index" \in DOMAIN p.value_domain
                            THEN {p.value_domain.enum_arg_index} ELSE {},
         allowed_values |-> IF "value_domain" \in DOMAIN p
                            THEN {GetOr(p.value_domain, "allowed_values", {})} ELSE {}]

\* the manifest the validator is built with
Manifest ==
    [policy |-> [naf_closed_world_predicates |-> {"present/1"}],
     predicates |->
        << [name |-> "present", arity |-> 1, io |-> "input"],
           [name |-> "bad", arity |-> 1, io |-> "derived"],
           [name |-> "dom", arity |-> 1, io |-> "both"],
           [name |-> "status", arity |-> 2, io |-> "input",
            value_domain |-> [enum_arg_index |-> 2, allowed_values |-> {"open", "closed"}]],
           [name |-> "gt", arity |-> 2, io |-> "input", kind |-> "builtin"],
           [name |-> "verdict", arity |-> 1, io |-> "derived",
            allowed_in |-> [head |-> TRUE, body |-> FALSE]],
           [name |-> "level", arity |-> 2, io |-> "input",
            value_domain |-> [allowed_values |-> {"low", "high"}]] >>]

\* ManifestIndex.naf_closed_world
naf_closed_world == Manifest.policy.naf_closed_world_predicates

\* ManifestIndex._by_name and _by_pred: a later entry replaces an earlier one
\* with the same key
_by_name ==
    [n \in {Manifest.predicates[i].name : i \in DOMAIN Manifest.predicates} |->
        _build_entry(Manifest.predicates[
            Max({i \in DOMAIN Manifest.predicates : Manifest.predicates[i].name = n})])]

_by_pred ==
    [n \in {_build_entry(Manifest.predicates[i]).pred : i \in DOMAIN Manifest.predicates} |->
        _build_entry(Manifest.predicates[
            Max({i \in DOMAIN Manifest.predicates :
                    _build_entry(Manifest.predicates[i]).pred = n})])]

\* lookup_by_name, lookup_by_pred: {} for None, else {entry}
lookup_by_name(name) == IF name \in DOMAIN _by_name THEN {_by_name[name]} ELSE {}

lookup_by_pred(pred_with_arity) ==
    IF pred_with_arity \in DOMAIN _by_pred THEN {_by_pred[pred_with_arity]} ELSE {}

is_naf_closed_world(pred_with_arity) == pred_with_arity \in naf_closed_world

\* _normalize_atom when negated is set to False whether or not it is present
_normalize_atom_reset(atom) ==
    [k \in DOMAIN atom \cup {"negated"} |-> IF k = "negated" THEN FALSE ELSE atom[k]]

\* normalize_rule: negated defaults to False in the head and the body atoms,
\* constraints and assumptions default to [], the quote is stripped
_normalize_atom(atom) ==
    IF "negated" \in DOMAIN atom THEN atom ELSE atom @@ [negated |-> FALSE]

RECURSIVE StripLeft(_)
StripLeft(str) ==
    IF Len(str) > 0 /\ SubSeq(str, 1, 1) = " " THEN StripLeft(SubSeq(str, 2, Len(str))) ELSE str

RECURSIVE StripRight(_)
StripRight(str) ==
    IF Len(str) > 0 /\ SubSeq(str, Len(str), Len(str)) = " "
    THEN StripRight(SubSeq(str, 1, Len(str) - 1)) ELSE str

\* str.strip()
Strip(str) == StripRight(StripLeft(str))

normalize_rule(rule) ==
    [k \in DOMAIN rule \cup {"constraints", "assumptions"} |->
        CASE k = "head" ->
                IF isinstance_dict(rule.head) THEN _normalize_atom(rule.head) ELSE rule.head
          [] k = "body" ->
                IF isinstance_list(rule.body)
                THEN [i \in 1..Len(rule.body) |->
                         IF isinstance_dict(rule.body[i])
                         THEN _normalize_atom(rule.body[i]) ELSE rule.body[i]]
                ELSE rule.body
          [] k = "constraints" -> GetOr(rule, "constraints", << >>)
          [] k = "assumptions" -> GetOr(rule, "assumptions", << >>)
          [] k = "provenance" ->
                IF isinstance_dict(rule.provenance)
                THEN LET q == GetOr(rule.provenance, "quote", "")
                     IN  IF isinstance_str(q)
                         THEN [f \in DOMAIN rule.provenance \cup {"quote"} |->
                                  IF f = "quote" THEN Strip(q) ELSE rule.provenance[f]]
                         ELSE rule.provenance
                ELSE rule.provenance
          [] OTHER -> rule[k]]

---------------------------------------------------------------------------
(* The rule validator: stages B, C and D *)

\* _is_var(arg), _is_const(arg) for string arguments
_is_var(arg) == Len(arg) >= 1 /\ SubSeq(arg, 1, 1) = "?"

_is_const(arg) == ~_is_var(arg)

\* the path f"/body/{i}" of the body atom at position k of the sequence
BodyPath(k) == "/body/" \o ToString(k - 1)

\* _check_atom with the lookup only: neither the arity nor the position of
\* a listed predicate is checked
_check_atom_lookup_only(atom, path, in_head) ==
    LET pred_name == GetOr(atom, "pred", "")
    IN  IF lookup_by_name(pred_name) = {}
        THEN <<Error("E_PRED_UNKNOWN", path \o "/pred", pred_name)>>
        ELSE << >>

\* the errors _check_atom appends
_check_atom(atom, path, in_head) ==
    LET pred_name == GetOr(atom, "pred", "")
        negated == GetOr(atom, "negated", FALSE)
        args == GetOr(atom, "args", << >>)
        found == lookup_by_name(pred_name)
    IN  IF found = {}
        THEN <<Error("E_PRED_UNKNOWN", path \o "/pred", pred_name)>>
        ELSE LET entry == CHOOSE e \in found : TRUE
             IN  (IF Len(args) # entry.arity
                  THEN <<Error("E_ARITY_MISMATCH", path \o "/args", pred_name)>>
                  ELSE << >>)
                 \o (IF in_head
                     THEN IF ~entry.allowed_in_head
                          THEN <<Error("E_PRED_NOT_ALLOWED_IN_HEAD", path \o "/pred",
                                       pred_name)>>
                          ELSE << >>
                     ELSE IF negated
                     THEN IF ~entry.allowed_in_negated_body
                             /\ ~is_naf_closed_world(entry.pred)
                          THEN <<Error("E_NEGATION_NOT_ALLOWED_FOR_PRED", path \o "/pred",
                                       entry.pred)>>
                          ELSE << >>
                     ELSE IF ~entry.allowed_in_body
                          THEN <<Error("E_PRED_NOT_ALLOWED_IN_BODY", path \o "/pred",
                                       pred_name)>>
                          ELSE << >>)

\* the concatenation of the error lists f(1), ..., f(n)
RECURSIVE Concat(_, _, _)
Concat(f, k, n) == IF k > n THEN << >> ELSE f[k] \o Concat(f, k + 1, n)

\* the errors _stage_predicates appends
_stage_predicates(rule) ==
    LET body == GetOr(rule, "body", << >>)
        AtomErrors(k) ==
            IF isinstance_dict(body[k]) THEN _check_atom(body[k], BodyPath(k), FALSE) ELSE << >>
    IN  (IF "head" \in DOMAIN rule /\ isinstance_dict(rule.head)
         THEN _check_atom(rule.head, "/head", TRUE) ELSE << >>)
            \o Concat([at \in 1..Len(body) |-> AtomErrors(at)], 1, Len(body))

\* the exception _stage_predicates raises ("" if none): enumerate(body) of a
\* body that is None
_stage_predicates_raises(rule) ==
    IF IsNone(GetOr(rule, "body", << >>)) THEN "TypeError" ELSE ""

\* the errors _check_enum_args appends
_check_enum_args(atom, path) ==
    LET found == lookup_by_name(GetOr(atom, "pred", ""))
    IN  IF found = {} THEN << >>
        ELSE LET entry == CHOOSE e \in found : TRUE
                 k == (CHOOSE i \in entry.enum_arg_index : TRUE) - 1
                 args == GetOr(atom, "args", << >>)
             IN  IF entry.allowed_values = {} THEN << >>
                 ELSE IF k < Len(args)
                         /\ _is_const(args[k + 1])
                         /\ \A allowed \in entry.allowed_values : args[k + 1] \notin allowed
                 THEN <<Error("E_ENUM_VALUE_INVALID", path \o "/args/" \o ToString(k),
                              args[k + 1])>>
                 ELSE << >>

\* the errors _stage_enums appends
_stage_enums(rule) ==
    LET body == GetOr(rule, "body", << >>)
        AtomErrors(k) ==
            IF isinstance_dict(body[k]) THEN _check_enum_args(body[k], BodyPath(k)) ELSE << >>
    IN  (IF "head" \in DOMAIN rule /\ isinstance_dict(rule.head)
         THEN _check_enum_args(rule.head, "/head") ELSE << >>)
            \o Concat([at \in 1..Len(body) |-> AtomErrors(at)], 1, Len(body))

\* _check_enum_args raises: entry.enum_arg_index - 1 with enum_arg_index None
_check_enum_args_raises(atom) ==
    \E entry \in lookup_by_name(GetOr(atom, "pred", "")) :
        entry.allowed_values # {} /\ entry.enum_arg_index = {}

\* the exception _stage_enums raises ("" if none)
_stage_enums_raises(rule) ==
    LET body == GetOr(rule, "body", << >>)
        atoms == (IF "head" \in DOMAIN rule /\ isinstance_dict(rule.head)
                  THEN {rule.head} ELSE {})
                    \cup {body[k] : k \in {j \in 1..Len(body) : isinstance_dict(body[j])}}
    IN  IF \E atom \in atoms : _check_enum_args_raises(atom) THEN "TypeError" ELSE ""

Letters ==
    {"a", "b", "c", "d", "e", "f", "g", "h", "i", "j", "k", "l", "m", "n", "o", "p", "q",
     "r", "s", "t", "u", "v", "w", "x", "y", "z", "A", "B", "C", "D", "E", "F", "G", "H",
     "I", "J", "K", "L", "M", "N", "O", "P", "Q", "R", "S", "T", "U", "V", "W", "X", "Y",
     "Z"}

Digits == {"0", "1", "2", "3", "4", "5", "6", "7", "8", "9"}

\* _VAR_RE.match(arg): ^\?[A-Za-z][A-Za-z0-9_]*$
_VAR_RE(arg) ==
    /\ Len(arg) >= 2
    /\ SubSeq(arg, 1, 1) = "?"
    /\ SubSeq(arg, 2, 2) \in Letters
    /\ \A i \in 3..Len(arg) : SubSeq(arg, i, i) \in Letters \cup Digits \cup {"_"}

\* the set of all the variables of the body atoms
all_body_vars(body) ==
    UNION {{arg \in Range(GetOr(body[k], "args", << >>)) : _is_var(arg)} : k \in 1..Len(body)}

\* the set pos_vars of _stage_safety: the variables of the body atoms that
\* are not negated
pos_vars(body) ==
    UNION {{arg \in Range(GetOr(body[k], "args", << >>)) : _is_var(arg)} :
              k \in {j \in 1..Len(body) : ~GetOr(body[j], "negated", FALSE)}}

\* the errors _stage_safety appends, given the set of bound variables
SafetyErrors(rule, bound) ==
    LET head == IF "head" \in DOMAIN rule /\ isinstance_dict(rule.head)
                THEN rule.head ELSE [k \in {} |-> k]
        body == GetOr(rule, "body", << >>)
        head_args == GetOr(head, "args", << >>)
        HeadError(k) ==
            IF _is_var(head_args[k]) /\ head_args[k] \notin bound
            THEN <<Error("E_VAR_UNBOUND_HEAD", "/head/args", head_args[k])>>
            ELSE << >>
        NegatedErrors(k) ==
            LET args == GetOr(body[k], "args", << >>)
                ArgError(j) ==
                    IF _is_var(args[j]) /\ args[j] \notin bound
                    THEN <<Error("E_VAR_UNBOUND_NEGATED", BodyPath(k), args[j])>>
                    ELSE << >>
            IN  IF GetOr(body[k], "negated", FALSE)
                THEN Concat([at \in 1..Len(args) |-> ArgError(at)], 1, Len(args))
                ELSE << >>
        NamingErrors(k) ==
            LET atom == IF k = 0 THEN head ELSE body[k]
                apath == IF k = 0 THEN "/head" ELSE BodyPath(k)
                args == GetOr(atom, "args", << >>)
                ArgError(j) ==
                    IF _is_var(args[j]) /\ ~_VAR_RE(args[j])
                    THEN <<Error("E_VAR_NAMING", apath \o "/args", args[j])>>
                    ELSE << >>
            IN  Concat([at \in 1..Len(args) |-> ArgError(at)], 1, Len(args))
    IN  Concat([at \in 1..Len(head_args) |-> HeadError(at)], 1, Len(head_args))
            \o Concat([at \in 1..Len(body) |-> NegatedErrors(at)], 1, Len(body))
            \o Concat([at \in 0..Len(body) |-> NamingErrors(at)], 0, Len(body))

\* the errors _stage_safety appends
_stage_safety(rule) == SafetyErrors(rule, pos_vars(GetOr(rule, "body", << >>)))

\* the exception _stage_safety raises ("" if none): atom.get of a body entry
\* that is not a dict
_stage_safety_raises(rule) ==
    LET body == GetOr(rule, "body", << >>)
    IN  IF \E k \in 1..Len(body) : ~isinstance_dict(body[k]) THEN "AttributeError" ELSE ""

\* the warnings _stage_safety appends
SafetyWarnings(rule) ==
    IF Len(GetOr(rule, "constraints", << >>)) > 0
    THEN <<"constraints">> ELSE << >>

---------------------------------------------------------------------------
(* The rule validator: stages E and F, and validate *)

\* runs of spaces collapsed to one space
RECURSIVE Collapse(_)
Collapse(str) ==
    IF Len(str) <= 1 THEN str
    ELSE IF SubSeq(str, 1, 1) = " " /\ SubSeq(str, 2, 2) = " "
         THEN Collapse(SubSeq(str, 2, Len(str)))
         ELSE SubSeq(str, 1, 1) \o Collapse(SubSeq(str, 2, Len(str)))

\* " ".join(s.split())
_normalize_ws(str) == Strip(Collapse(str))

\* needle in hay
Contains(hay, needle) ==
    \E i \in 1..(Len(hay) - Len(needle) + 1) : SubSeq(hay, i, i + Len(needle) - 1) = needle

\* the errors _stage_provenance appends
_stage_provenance(rule, src) ==
    IF "provenance" \notin DOMAIN rule \/ ~isinstance_dict(rule.provenance) THEN << >>
    ELSE LET prov == rule.provenance
             unit == GetOr(prov, "unit", << >>)
             quote == GetOr(prov, "quote", "")
         IN  (IF Len(unit) = 0
              THEN <<Error("E_PROVENANCE_EMPTY_UNIT", "/provenance/unit", "")>>
              ELSE << >>)
             \o (IF quote = "" \/ Strip(quote) = ""
                 THEN <<Error("E_PROVENANCE_EMPTY_QUOTE", "/provenance/quote", "")>>
                 ELSE IF src # "" /\ ~Contains(_normalize_ws(src), _normalize_ws(quote))
                 THEN <<Error("E_QUOTE_NOT_IN_SOURCE", "/provenance/quote", quote)>>
                 ELSE << >>)

\* "/" in str, and str.split("/")[0]
RECURSIVE BeforeSlash(_)
BeforeSlash(str) ==
    IF Len(str) = 0 \/ SubSeq(str, 1, 1) = "/" THEN ""
    ELSE SubSeq(str, 1, 1) \o BeforeSlash(SubSeq(str, 2, Len(str)))

HasSlash(str) == \E i \in 1..Len(str) : SubSeq(str, i, i) = "/"

\* about.get(key) is not None
Given(about, key) ==
    key \in DOMAIN about /\ ~IsNone(about[key])

\* list[i] for a Python index i, which counts from the end when negative
PyIndex(list, i) == IF i >= 0 THEN list[i + 1] ELSE list[Len(list) + i + 1]

\* the entry _check_assumption finds for about.pred: {} for None
AssumptionEntry(about) ==
    LET pred_str == GetOr(about, "pred", "")
        by_pred == lookup_by_pred(pred_str)
    IN  IF by_pred = {} /\ HasSlash(pred_str)
        THEN lookup_by_name(BeforeSlash(pred_str))
        ELSE by_pred

\* the errors _check_assumption appends
_check_assumption(assumption, a_idx, body) ==
    LET about == GetOr(assumption, "about", [k \in {} |-> k])
        pred_str == GetOr(about, "pred", "")
        found == AssumptionEntry(about)
        apath == "/assumptions/" \o ToString(a_idx) \o "/about/"
    IN  IF ~isinstance_dict(about) THEN << >>
        ELSE IF found = {}
        THEN <<Error("E_ASSUMPTION_PRED_INVALID", apath \o "pred", pred_str)>>
        ELSE LET entry == CHOOSE e \in found : TRUE
             IN  IF ~Given(about, "atom_index") THEN << >>
                 ELSE IF about.atom_index >= Len(body)
                 THEN <<Error("E_ASSUMPTION_BAD_ATOM_INDEX", apath \o "atom_index", pred_str)>>
                 ELSE IF ~Given(about, "arg_index") THEN << >>
                 ELSE IF about.arg_index < 1 \/ about.arg_index > entry.arity
                 THEN <<Error("E_ASSUMPTION_BAD_ARG_INDEX", apath \o "arg_index", pred_str)>>
                 ELSE IF ~Given(about, "const") THEN << >>
                 ELSE LET ref_atom == PyIndex(body, about.atom_index)
                          ref_args == GetOr(ref_atom, "args", << >>)
                          k == about.arg_index - 1
                      IN  IF isinstance_dict(ref_atom)
                             /\ k < Len(ref_args)
                             /\ _is_const(ref_args[k + 1])
                             /\ ref_args[k + 1] # about.const
                          THEN <<Error("E_ASSUMPTION_CONST_MISMATCH", apath \o "const",
                                       about.const)>>
                          ELSE << >>

\* the exception _check_assumption raises ("" if none): the comparison of an
\* atom_index that is no number with len(body), and body[atom_index] for an
\* atom_index below -len(body)
_check_assumption_raises(assumption, body) ==
    LET about == GetOr(assumption, "about", [k \in {} |-> k])
        found == AssumptionEntry(about)
    IN  IF ~isinstance_dict(about) THEN ""
        ELSE IF found = {} THEN ""
        ELSE LET entry == CHOOSE e \in found : TRUE
             IN  IF ~Given(about, "atom_index") THEN ""
                 ELSE IF ~isinstance_int(about.atom_index) THEN "TypeError"
                 ELSE IF about.atom_index >= Len(body) THEN ""
                 ELSE IF ~Given(about, "arg_index") THEN ""
                 ELSE IF about.arg_index < 1 \/ about.arg_index > entry.arity THEN ""
                 ELSE IF ~Given(about, "const") THEN ""
                 ELSE IF about.atom_index < 0 - Len(body) THEN "IndexError"
                 ELSE ""

\* the order of the characters of predicate keys, and the order of strings
CharOrder == "/0123456789_abcdefghijklmnopqrstuvwxyz"

CharRank(c) == CHOOSE i \in 1..Len(CharOrder) : SubSeq(CharOrder, i, i) = c

RECURSIVE StrLess(_, _)
StrLess(x, y) ==
    IF Len(y) = 0 THEN FALSE
    ELSE IF Len(x) = 0 THEN TRUE
    ELSE IF SubSeq(x, 1, 1) = SubSeq(y, 1, 1)
         THEN StrLess(SubSeq(x, 2, Len(x)), SubSeq(y, 2, Len(y)))
         ELSE CharRank(SubSeq(x, 1, 1)) < CharRank(SubSeq(y, 1, 1))

\* sorted(S) for a set of strings
RECURSIVE Sorted(_)
Sorted(S) ==
    IF S = {} THEN << >>
    ELSE LET least == CHOOSE x \in S : \A y \in S \ {x} : StrLess(x, y)
         IN  <<least>> \o Sorted(S \ {least})

\* _stage_assumptions without the check of the required closed_world
\* assumptions
_stage_assumptions_unrequired(rule) ==
    LET assumptions == GetOr(rule, "assumptions", << >>)
        body == GetOr(rule, "body", << >>)
        AssumptionErrors(i) ==
            IF isinstance_dict(assumptions[i])
            THEN _check_assumption(assumptions[i], i - 1, body) ELSE << >>
    IN  Concat([at \in 1..Len(assumptions) |-> AssumptionErrors(at)], 1, Len(assumptions))

\* the errors _stage_assumptions appends
_stage_assumptions(rule) ==
    LET assumptions == GetOr(rule, "assumptions", << >>)
        body == GetOr(rule, "body", << >>)
        negated_cw ==
            UNION {{e.pred : e \in {x \in lookup_by_name(GetOr(body[k], "pred", "")) :
                                       is_naf_closed_world(x.pred)}} :
                      k \in {j \in 1..Len(body) : GetOr(body[j], "negated", FALSE)}}
        cw_covered ==
            {GetOr(GetOr(assumptions[i], "about", [k \in {} |-> k]), "pred", "") :
                i \in {j \in 1..Len(assumptions) :
                          /\ isinstance_dict(assumptions[j])
                          /\ GetOr(assumptions[j], "type", "") = "closed_world"}}
        AssumptionErrors(i) ==
            IF isinstance_dict(assumptions[i])
            THEN _check_assumption(assumptions[i], i - 1, body) ELSE << >>
        required == Sorted(negated_cw)
        RequiredError(i) ==
            IF required[i] \notin cw_covered
            THEN <<Error("E_ASSUMPTION_REQUIRED_CLOSED_WORLD", "/assumptions", required[i])>>
            ELSE << >>
    IN  Concat([at \in 1..Len(assumptions) |-> AssumptionErrors(at)], 1, Len(assumptions))
            \o Concat([at \in 1..Len(required) |-> RequiredError(at)], 1, Len(required))

\* the exception _stage_assumptions raises ("" if none): the one of the first
\* assumption whose check raises
_stage_assumptions_raises(rule) ==
    LET assumptions == GetOr(rule, "assumptions", << >>)
        body == GetOr(rule, "body", << >>)
        Raises(i) ==
            IF ~isinstance_dict(assumptions[i]) THEN ""
            ELSE IF /\ GetOr(assumptions[i], "type", "") = "closed_world"
                    /\ ~isinstance_dict(GetOr(assumptions[i], "about", [k \in {} |-> k]))
            THEN "AttributeError"
            ELSE _check_assumption_raises(assumptions[i], body)
        raising == {i \in 1..Len(assumptions) : Raises(i) # ""}
    IN  IF \E k \in 1..Len(body) : ~isinstance_dict(body[k]) THEN "AttributeError"
        ELSE IF raising = {} THEN ""
        ELSE Raises(CHOOSE i \in raising : \A j \in raising : i <= j)

\* errors after a stage that runs only below the error limit
Gated(errors, more) == IF Len(errors) < MAX_ERRORS THEN errors \o more ELSE errors

\* an exception that leaves validate
Exception(type) == [exception |-> type]

\* the exception of a stage that runs only below the error limit
GatedRaises(errors, raises) == IF Len(errors) < MAX_ERRORS THEN raises ELSE ""

\* the ValidationReport of validate(rule, src) when the schema stage reports
\* the errors found ({} stands for normalized_rule = None), or the exception
\* that leaves validate
validate(rule, src, found) ==
    IF Len(found) > 0
    THEN [is_valid |-> FALSE, errors |-> found, warnings |-> << >>, normalized_rule |-> {}]
    ELSE LET normal == normalize_rule(rule)
             b == _stage_predicates(normal)
             c == Gated(b, _stage_enums(normal))
             d == Gated(c, _stage_safety(normal))
             e == Gated(d, _stage_provenance(normal, src))
             f == Gated(e, _stage_assumptions(normal))
         IN  IF _stage_predicates_raises(normal) # ""
             THEN Exception(_stage_predicates_raises(normal))
             ELSE IF GatedRaises(b, _stage_enums_raises(normal)) # ""
             THEN Exception(_stage_enums_raises(normal))
             ELSE IF GatedRaises(c, _stage_safety_raises(normal)) # ""
             THEN Exception(_stage_safety_raises(normal))
             ELSE IF GatedRaises(e, _stage_assumptions_raises(normal)) # ""
             THEN Exception(_stage_assumptions_raises(normal))
             ELSE [is_valid |-> Len(f) = 0,
                   errors |-> f,
                   warnings |-> IF Len(c) < MAX_ERRORS THEN SafetyWarnings(normal) ELSE << >>,
                   normalized_rule |-> {normal}]

---------------------------------------------------------------------------
(* The rules passed to validate *)

JsonAtom(pred, args) == [pred |-> pred, args |-> args]

JsonLiteral(pred, args, negated) == [pred |-> pred, args |-> args, negated |-> negated]

ValidatorHeads ==
    { {JsonAtom("bad", <<"?X">>)},
      {JsonAtom("bad", <<"?X", "?Y">>)},
      {JsonLiteral("present", <<"?X">>, FALSE)},
      {} }

ValidatorAtoms ==
    { JsonAtom("present", <<"?X">>),
      JsonLiteral("present", <<"?X">>, TRUE),
      JsonLiteral("present", <<"?Y">>, TRUE),
      JsonLiteral("dom", <<"?X">>, FALSE),
      JsonLiteral("dom", <<"?Z">>, TRUE),
      JsonAtom("status", <<"?X", "bogus">>),
      JsonAtom("gt", <<"?Y", "1">>),
      JsonAtom("ghost", <<"?X">>),
      JsonAtom("verdict", <<"?X">>),
      JsonLiteral("verdict", <<"?X">>, TRUE) }

\* an atom that makes stage B report one error
PaddingAtom == JsonLiteral("ghost", <<"?P">>, TRUE)

Padding(n) == [i \in 1..n |-> PaddingAtom]

ValidatorBodies ==
    UNION {[1..n -> ValidatorAtoms] : n \in 0..MaxBody}

\* what comes with the head and the body: the other keys of the rule, the
\* source text, and the errors of the schema stage
Envelopes ==
    { [extra |-> [k \in {} |-> k], src |-> "", found |-> << >>],
      [extra |-> [k \in {} |-> k], src |-> "",
       found |-> <<Error("E_SCHEMA_VIOLATION", "/", "")>>],
      [extra |-> [provenance |-> [unit |-> <<"s1">>, quote |-> " a  b "],
                  assumptions |-> <<[about |-> [pred |-> "present/1"],
                                     type |-> "closed_world"]>>],
       src |-> "x a b", found |-> << >>],
      [extra |-> [provenance |-> [unit |-> <<"s1">>, quote |-> "zz"],
                  assumptions |-> <<[about |-> [pred |-> "present/1", atom_index |-> 0,
                                                arg_index |-> 1, const |-> "c"],
                                     type |-> "closed_world"]>>],
       src |-> "x a b", found |-> << >>],
      [extra |-> [provenance |-> [unit |-> << >>, quote |-> "  "],
                  assumptions |-> <<[about |-> [pred |-> "nothing/1"],
                                     type |-> "data_contract"]>>],
       src |-> "", found |-> << >>],
      [extra |-> [constraints |-> <<"c1">>,
                  assumptions |-> <<[about |-> [pred |-> "status/2", atom_index |-> 0,
                                                arg_index |-> 3],
                                     type |-> "data_contract"]>>],
       src |-> "", found |-> << >>],
      [extra |-> [assumptions |-> <<[about |-> [pred |-> "status/2", arg_index |-> 3],
                                     type |-> "data_contract"]>>],
       src |-> "", found |-> << >>],
      [extra |-> [assumptions |-> <<[about |-> [pred |-> "present/1", atom_index |-> -1,
                                                arg_index |-> 1],
                                     type |-> "closed_world"]>>],
       src |-> "", found |-> << >>] }

ValidatorRule(head, body, extra) ==
    (IF head = {} THEN [k \in {} |-> k] ELSE [head |-> CHOOSE h \in head : TRUE])
        @@ [body |-> body] @@ extra

InitValidate ==
    /\ \E head \in ValidatorHeads, body \in ValidatorBodies,
          n \in {0, MAX_ERRORS - 1, MAX_ERRORS}, env \in Envelopes :
          /\ rule_json = ValidatorRule(head, body \o Padding(n), env.extra)
          /\ source_text = env.src
          /\ schema_errors = env.found
    /\ report = << >>
    /\ whitelist_mode = GetOr(Manifest.policy, "whitelist_mode", "allow_only_listed")
    /\ rules = << >>
    /\ edb = << >>
    /\ conditions = CondTable
    /\ NoEvaluator
    /\ NoCalls
    /\ NoUnification

\* RuleValidator.validate(rule_json, source_text)
Validate ==
    /\ report = << >>
    /\ report' = validate(rule_json, source_text, schema_errors)
    /\ UNCHANGED <<rule_json, source_text, schema_errors, whitelist_mode>>
    /\ UNCHANGED evars
    /\ UNCHANGED uvars
    /\ UNCHANGED pvars

SpecValidate == InitValidate /\ [][Validate]_vars

---------------------------------------------------------------------------
(* Validation of any JSON object, under either whitelist mode *)

\* body entries: atoms, an atom of a predicate whose value domain names no
\* argument, an atom of an unlisted predicate, and an entry that is no object
AnyEntries ==
    << JsonAtom("present", <<"?X">>),
       JsonLiteral("present", <<"?X">>, TRUE),
       JsonAtom("level", <<"?X", "low">>),
       JsonAtom("ghost", <<"?X">>),
       "oops" >>

\* the body key of the rule: missing (kind 0), null (kind 1), or the list of
\* the chosen entries followed by n atoms of an unlisted predicate (kind 2)
AnyBody(kind, choice, n) ==
    CASE kind = 0 -> [k \in {} |-> k]
      [] kind = 1 -> [body |-> None]
      [] OTHER -> [body |-> [i \in 1..Len(choice) |-> AnyEntries[choice[i]]] \o Padding(n)]

\* the other keys of the rule
AnyExtras ==
    << [k \in {} |-> k],
       [provenance |-> [unit |-> <<"s1">>, quote |-> " a  b "], constraints |-> <<"c1">>],
       [provenance |-> [unit |-> <<"s1">>]],
       [provenance |-> None, assumptions |-> <<"text">>],
       [assumptions |-> <<[about |-> [pred |-> "present/1", atom_index |-> "0"],
                           type |-> "closed_world"]>>],
       [assumptions |-> <<[about |-> [pred |-> "present/1", atom_index |-> -1,
                                      arg_index |-> 1, const |-> "c"],
                           type |-> "closed_world"]>>],
       [assumptions |-> <<[about |-> [pred |-> "present/1", atom_index |-> -3,
                                      arg_index |-> 1, const |-> "c"],
                           type |-> "closed_world"]>> ] >>

InitValidateAny ==
    /\ \E with_head \in BOOLEAN, kind \in 0..2, n \in {0, MAX_ERRORS},
          choice \in UNION {[1..m -> 1..Len(AnyEntries)] : m \in 0..MaxBody},
          extra \in 1..Len(AnyExtras) :
          /\ kind < 2 => (n = 0 /\ choice = << >>)
          /\ rule_json = (IF with_head THEN [head |-> JsonAtom("bad", <<"?X">>)]
                                       ELSE [k \in {} |-> k])
                            @@ AnyBody(kind, choice, n) @@ AnyExtras[extra]
    /\ source_text \in {"", "x a b"}
    /\ schema_errors = << >>
    /\ report = << >>
    /\ whitelist_mode \in {"allow_only_listed", "allow_unlisted"}
    /\ rules = << >>
    /\ edb = << >>
    /\ conditions = CondTable
    /\ NoEvaluator
    /\ NoCalls
    /\ NoUnification

SpecValidateAny == InitValidateAny /\ [][Validate]_vars

---------------------------------------------------------------------------

Next ==
    \/ Construct
    \/ Evaluate \/ BeginStratum \/ BeginRound \/ EvalRule \/ EvalRuleSetChanged
    \/ EndStratum \/ Return

Spec == Init /\ [][Next]_vars

---------------------------------------------------------------------------
(* Construction alone, over a family of dependency graphs *)

StrataNames == <<"p", "q", "r">>

\* rule number k of the family: a head over one of three predicates and one
\* body atom over one of them, positive or negated
StrataRule(k) ==
    Rule("s" \o ToString(k), StrataNames[((k - 1) \div 6) + 1], <<"?X">>,
         <<Atom(StrataNames[(((k - 1) \div 2) % 3) + 1], <<"?X">>, (k % 2) = 0)>>)

\* the family, and two rules whose bodies also hold a builtin atom
StrataRulePool ==
    [k \in 1..18 |-> StrataRule(k)]
        \o << Rule("s19", "p", <<"?X">>,
                   <<Atom("ne", <<"?X", "1">>, TRUE), Atom("q", <<"?X">>, FALSE)>>),
              Rule("s20", "eq", <<"?X", "?X">>,
                   <<Atom("eq", <<"?X", "?X">>, TRUE), Atom("r", <<"?X">>, FALSE)>>) >>

\* the rules of the pool with the given numbers, in the order of the pool
RECURSIVE RulesAt(_, _)
RulesAt(pool, idx) ==
    IF idx = {} THEN << >>
    ELSE LET k == CHOOSE x \in idx : \A y \in idx : x <= y
         IN  <<pool[k]>> \o RulesAt(pool, idx \ {k})

StrataPrograms ==
    {RulesAt(StrataRulePool, idx) :
        idx \in {x \in SUBSET (1..Len(StrataRulePool)) : Cardinality(x) <= MaxStrataRules}}

InitStrata ==
    /\ rules \in StrataPrograms
    /\ edb = << >>
    /\ conditions = CondTable
    /\ NoEvaluator
    /\ NoCalls
    /\ NoUnification
    /\ NoValidation

SpecStrata == InitStrata /\ [][Construct]_vars

---------------------------------------------------------------------------
(* Repeated evaluation: a second call, a second Evaluator *)

NextRerun == Next \/ EvaluateAgain \/ Rebuild

SpecRerun == Init /\ [][NextRerun]_vars

---------------------------------------------------------------------------
(* Repeated calls on one Evaluator: evaluate() again, query() *)

\* ev.query(pred, args) for the head of one of the rules
QueryHead ==
    /\ pc \in {"ready", "returned"} \/ (pc = "error" /\ err # "NotStratifiable")
    /\ \E i \in 1..Len(rules) :
          /\ q_goal' = <<rules[i].head_pred, rules[i].head_args>>
          /\ q_results' = QueryResults(rules[i].head_pred, rules[i].head_args)
    /\ UNCHANGED <<rules, edb, conditions, pc, err, err_preds, self_rules,
                   self_strata, self_facts, s, ri, changed, iters, started, calls,
                   inserted, run, first>>
    /\ UNCHANGED vvars
    /\ UNCHANGED uvars
    /\ UNCHANGED pvars

NextCalls == Next \/ EvaluateAgain \/ QueryHead

SpecCalls == Init /\ [][NextCalls]_vars

---------------------------------------------------------------------------
(* Queries on a store *)

QueryFactPool ==
    {<<"reach", <<x, y>> >> : x, y \in {"a", "b"}} \cup {<<"dom", <<x>> >> : x \in {"a", "b"}}

QueryEDBs ==
    {FactsOf(fs) : fs \in {x \in SUBSET QueryFactPool : Cardinality(x) <= MaxFacts}}

InitQuery ==
    /\ rules = << >>
    /\ edb \in QueryEDBs
    /\ conditions = CondTable
    /\ NoEvaluator
    /\ NoCalls
    /\ NoUnification
    /\ NoValidation

NextQuery == Construct \/ query

SpecQuery == InitQuery /\ [][NextQuery]_vars

---------------------------------------------------------------------------
(* Evaluation of rules with meets_condition atoms *)

\* rules with meets_condition atoms (a variable and a constant as the entity,
\* a quoted and a bare condition id, a rule variable with the name a renamed
\* variable of the condition gets), and the two reach rules
ConditionRulePool ==
    << Rule("c1", "can_bid", <<"?U">>,
            <<Atom("meets_condition", <<"?U", "buyer_active">>, FALSE)>>),
       Rule("c2", "p", <<"?X">>,
            <<Atom("meets_condition", <<"?X", "'linked'">>, FALSE)>>),
       Rule("c3", "pair", <<"?X", "?V_mc0">>,
            <<Atom("meets_condition", <<"?X", "linked">>, FALSE),
              Atom("edge", <<"?X", "?V_mc0">>, FALSE)>>),
       Rule("c4", "ok", <<"yes">>,
            <<Atom("meets_condition", <<"u1", "buyer_active">>, FALSE)>>),
       RulePool[1],
       RulePool[2] >>

\* condition_id -> required_facts
ConditionTable ==
    CondTable @@
    ("buyer_active" :> <<Atom("account_status", <<"?U", "active">>, FALSE),
                         Atom("registered", <<"?U">>, FALSE)>>)

ConditionFactPool ==
    { <<"account_status", <<"u1", "active">> >>, <<"registered", <<"u1">> >>,
      <<"registered", <<"u2">> >>,
      <<"edge", <<"a", "b">> >>, <<"edge", <<"a", "c">> >>, <<"dom", <<"b">> >>,
      <<"reach", <<"b", "b">> >> }

ConditionPrograms ==
    UNION {{[i \in 1..n |-> ConditionRulePool[f[i]]] :
               f \in {g \in [1..n -> 1..Len(ConditionRulePool)] :
                         \A i, j \in 1..n : i # j => g[i] # g[j]}} :
              n \in 0..MaxRules}

ConditionEDBs ==
    {FactsOf(fs) : fs \in {x \in SUBSET ConditionFactPool : Cardinality(x) <= MaxFacts}}

InitConditions ==
    /\ rules \in ConditionPrograms
    /\ edb \in ConditionEDBs
    /\ conditions = ConditionTable
    /\ NoEvaluator
    /\ NoCalls
    /\ NoUnification
    /\ NoValidation

SpecConditions == InitConditions /\ [][Next]_vars

---------------------------------------------------------------------------
(* Construction alone, over rules with several conditions *)

\* rules with two expansions of one condition, expansions of two conditions,
\* a condition without variables, an unknown condition, and a condition
\* whose required facts hold a meets_condition atom
ExpandRulePool ==
    << Rule("e1", "p", <<"?X", "?Y">>,
            <<Atom("meets_condition", <<"?X", "linked">>, FALSE),
              Atom("meets_condition", <<"?Y", "linked">>, FALSE)>>),
       Rule("e2", "q", <<"?X">>,
            <<Atom("meets_condition", <<"?X", "'linked'">>, FALSE)>>),
       Rule("e3", "q", <<"?U">>,
            <<Atom("meets_condition", <<"?U", "near">>, FALSE),
              Atom("meets_condition", <<"?U", "no_such_condition">>, FALSE)>>),
       Rule("e4", "q", <<"?X">>,
            <<Atom("meets_condition", <<"?X", "market_open">>, FALSE),
              Atom("dom", <<"?X">>, FALSE),
              Atom("meets_condition", <<"?X", "linked">>, FALSE)>>),
       Rule("e5", "q", <<"?X">>,
            <<Atom("meets_condition", <<"?X", "linked_twice">>, FALSE)>>),
       Rule("e6", "q", <<"?X">>, <<Atom("dom", <<"?X">>, FALSE)>>) >>

\* condition_id -> required_facts
ExpandTable ==
    CondTable @@
    ("near" :> <<Atom("edge", <<"?U", "?W">>, FALSE)>>) @@
    ("market_open" :> <<Atom("dom", <<"open">>, FALSE)>>) @@
    ("linked_twice" :> <<Atom("edge", <<"?U", "?W">>, FALSE),
                         Atom("meets_condition", <<"?W", "linked">>, FALSE)>>)

ExpandPrograms ==
    UNION {{[i \in 1..n |-> ExpandRulePool[f[i]]] :
               f \in {g \in [1..n -> 1..Len(ExpandRulePool)] :
                         \A i, j \in 1..n : i # j => g[i] # g[j]}} :
              n \in 0..MaxExpandRules}

InitExpand ==
    /\ rules \in ExpandPrograms
    /\ edb = << >>
    /\ conditions = ExpandTable
    /\ NoEvaluator
    /\ NoCalls
    /\ NoUnification
    /\ NoValidation

SpecExpand == InitExpand /\ [][Construct]_vars

---------------------------------------------------------------------------
(* parse_goal *)

\* the characters [a-z_] and [a-z0-9_] of _GOAL_RE, compiled with re.IGNORECASE
GoalNameStart == Letters \cup {"_"}

GoalNameChar == Letters \cup Digits \cup {"_"}

\* the length of the longest prefix of str that group 1 of _GOAL_RE matches
RECURSIVE GoalNameLen(_, _)
GoalNameLen(str, i) ==
    IF i < Len(str) /\ SubSeq(str, i + 1, i + 1) \in (IF i = 0 THEN GoalNameStart ELSE GoalNameChar)
    THEN GoalNameLen(str, i + 1)
    ELSE i

\* the position of the first character c of str after position i; 0 if none
RECURSIVE IndexFrom(_, _, _)
IndexFrom(str, c, i) ==
    IF i >= Len(str) THEN 0
    ELSE IF SubSeq(str, i + 1, i + 1) = c THEN i + 1
    ELSE IndexFrom(str, c, i + 1)

\* _GOAL_RE.match(str): {} for no match, else {(group 1, group 2)}, where
\* group 2 is {} when the parenthesized part is missing and {raw_args} otherwise
_GOAL_RE(str) ==
    LET n == GoalNameLen(str, 0)
        rest == StripLeft(SubSeq(str, n + 1, Len(str)))
        close == IndexFrom(rest, ")", 1)
    IN  IF n = 0 THEN {}
        ELSE IF rest = "" THEN {<<SubSeq(str, 1, n), {}>>}
        ELSE IF SubSeq(rest, 1, 1) = "(" /\ close > 0
                /\ Strip(SubSeq(rest, close + 1, Len(rest))) = ""
        THEN {<<SubSeq(str, 1, n), {SubSeq(rest, 2, close - 1)}>>}
        ELSE {}

\* str.split(",")
RECURSIVE SplitCommas(_)
SplitCommas(str) ==
    LET comma == IndexFrom(str, ",", 0)
    IN  IF comma = 0 THEN <<str>>
        ELSE <<SubSeq(str, 1, comma - 1)>> \o SplitCommas(SubSeq(str, comma + 1, Len(str)))

\* parse_goal(goal_str): {} for the ValueError, else {(pred, args)}
parse_goal(str) ==
    {<<m[1],
       IF m[2] = {} \/ \A raw_args \in m[2] : Strip(raw_args) = ""
       THEN << >>
       ELSE LET parts == SplitCommas(CHOOSE raw_args \in m[2] : TRUE)
            IN  [i \in 1..Len(parts) |-> StripQuotes(Strip(parts[i]))]>> :
        m \in _GOAL_RE(Strip(str))}

\* the pieces the goal strings are built from
GoalTokens == <<"p", "P", "_q", "1", "(", ")", ",", " ", "'a'">>

\* the concatenation of the tokens chosen
RECURSIVE GoalString(_)
GoalString(choice) ==
    IF Len(choice) = 0 THEN ""
    ELSE GoalTokens[choice[1]] \o GoalString(SubSeq(choice, 2, Len(choice)))

InitParse ==
    /\ \E n \in 0..MaxGoalTokens :
          \E choice \in [1..n -> 1..Len(GoalTokens)] : goal_str = GoalString(choice)
    /\ parsed = NotCalled
    /\ builtin_atom = << >>
    /\ builtin_matches = NotCalled
    /\ given_body = << >>
    /\ reordered = NotCalled
    /\ rules = << >>
    /\ edb = << >>
    /\ conditions = CondTable
    /\ NoEvaluator
    /\ NoUnification
    /\ NoValidation

\* parse_goal(goal_str)
Parse ==
    /\ ~parsed.called
    /\ parsed' = [called |-> TRUE, result |-> parse_goal(goal_str)]
    /\ UNCHANGED <<goal_str, builtin_atom, builtin_matches, given_body, reordered>>
    /\ UNCHANGED <<evars, vvars, uvars>>

SpecParse == InitParse /\ [][Parse]_vars

---------------------------------------------------------------------------
(* _safe_reorder_body on a body of its own *)

ReorderAtoms ==
    { Atom("dom", <<"?X">>, FALSE), Atom("edge", <<"?X", "?Y">>, FALSE),
      Atom("gt", <<"?X", "1">>, FALSE), Atom("ne", <<"?X", "?Y">>, FALSE),
      Atom("q", <<"?X">>, TRUE), Atom("gt", <<"?Y", "1">>, TRUE) }

InitReorder ==
    /\ \E n \in 0..MaxReorder : given_body \in [1..n -> ReorderAtoms]
    /\ reordered = NotCalled
    /\ goal_str = ""
    /\ parsed = NotCalled
    /\ builtin_atom = << >>
    /\ builtin_matches = NotCalled
    /\ rules = << >>
    /\ edb = << >>
    /\ conditions = CondTable
    /\ NoEvaluator
    /\ NoUnification
    /\ NoValidation

\* _safe_reorder_body(given_body)
Reorder ==
    /\ ~reordered.called
    /\ reordered' = [called |-> TRUE, result |-> _safe_reorder_body(given_body)]
    /\ UNCHANGED <<goal_str, parsed, builtin_atom, builtin_matches, given_body>>
    /\ UNCHANGED <<evars, vvars, uvars>>

SpecReorder == InitReorder /\ [][Reorder]_vars

---------------------------------------------------------------------------
(* _match_body on a body of one builtin atom *)

\* numerals, two of them one apart above 2^53, names and a variable
BuiltinTerms ==
    {"1", "2", "10", "02", "9007199254740992", "9007199254740993", "a", "b", "?X"}

InitBuiltin ==
    /\ \E pred \in BUILTINS, x, y \in BuiltinTerms, negated \in BOOLEAN :
          builtin_atom = <<Atom(pred, <<x, y>>, negated)>>
    /\ builtin_matches = NotCalled
    /\ goal_str = ""
    /\ parsed = NotCalled
    /\ given_body = << >>
    /\ reordered = NotCalled
    /\ rules = << >>
    /\ edb = << >>
    /\ conditions = CondTable
    /\ NoEvaluator
    /\ NoUnification
    /\ NoValidation

\* the stream _match_body(builtin_atom, {}, {}) consumed to its end
MatchBuiltin ==
    /\ ~builtin_matches.called
    /\ builtin_matches' =
          [called |-> TRUE, result |-> _match_body(builtin_atom, << >>, EmptySubst, 1)]
    /\ UNCHANGED <<goal_str, parsed, builtin_atom, given_body, reordered>>
    /\ UNCHANGED <<evars, vvars, uvars>>

SpecBuiltin == InitBuiltin /\ [][MatchBuiltin]_vars

---------------------------------------------------------------------------
(* _unify on two tuples of terms, in both orders *)

UnifyTerms == {"?X", "?Y", "?Z", "a", "b"}

\* the pairs of tuples of the same length, up to MaxTerms terms each
InitUnify ==
    /\ \E n \in 0..MaxTerms :
          /\ tuple_a \in [1..n -> UnifyTerms]
          /\ tuple_b \in [1..n -> UnifyTerms]
    /\ unified = NotCalled
    /\ unified_swapped = NotCalled
    /\ rules = << >>
    /\ edb = << >>
    /\ conditions = CondTable
    /\ NoEvaluator
    /\ NoCalls
    /\ NoValidation

\* _unify(a, b, {})
Unify ==
    /\ ~unified.called
    /\ unified' = [called |-> TRUE, result |-> _unify(tuple_a, tuple_b, EmptySubst)]
    /\ UNCHANGED <<tuple_a, tuple_b, unified_swapped>>
    /\ UNCHANGED <<evars, vvars>>
    /\ UNCHANGED pvars

\* _unify(b, a, {})
UnifySwapped ==
    /\ ~unified_swapped.called
    /\ unified_swapped' = [called |-> TRUE, result |-> _unify(tuple_b, tuple_a, EmptySubst)]
    /\ UNCHANGED <<tuple_a, tuple_b, unified>>
    /\ UNCHANGED <<evars, vvars>>
    /\ UNCHANGED pvars

NextUnify == Unify \/ UnifySwapped

SpecUnify == InitUnify /\ [][NextUnify]_vars

---------------------------------------------------------------------------
(* One Evaluator whose calls are always continued *)

\* the steps of evaluate() after its entry
InEvaluate ==
    BeginStratum \/ BeginRound \/ EvalRule \/ EvalRuleSetChanged \/ EndStratum \/ Return

\* the interpreter goes on with a call it has begun: evaluate() is one
\* synchronous call on one thread, so a step of it that can be taken is taken
SpecLive == Init /\ [][Next]_vars /\ WF_vars(InEvaluate)

---------------------------------------------------------------------------
(* The least model of a stratified program, defined on ground instances *)

VarsOf(args) == {t \in Range(args) : IsVar(t)}

PositiveVars(rule) ==
    UNION {VarsOf(rule.body[j].args) :
              j \in {k \in 1..Len(rule.body) :
                        ~rule.body[k].negated /\ rule.body[k].pred \notin BUILTINS}}

RuleVars(rule) ==
    VarsOf(rule.head_args) \cup UNION {VarsOf(rule.body[j].args) : j \in 1..Len(rule.body)}

\* every variable of the rule occurs in a positive non-builtin body atom
SafeRule(rule) == RuleVars(rule) \subseteq PositiveVars(rule)

SafeRules(rs) == \A i \in 1..Len(rs) : SafeRule(rs[i])

\* q occurs in the body of a rule for p, with the given sign, builtins excluded
Edge(rs, p, q, negated) ==
    \E i \in 1..Len(rs) :
        /\ rs[i].head_pred = p
        /\ \E j \in 1..Len(rs[i].body) :
              /\ rs[i].body[j].pred = q
              /\ rs[i].body[j].negated = negated
              /\ q \notin BUILTINS

GraphPreds(rs) ==
    {rs[i].head_pred : i \in 1..Len(rs)}
        \cup UNION {{rs[i].body[j].pred : j \in 1..Len(rs[i].body)} \ BUILTINS :
                       i \in 1..Len(rs)}

\* walks of the dependency graph with k edges
Walks(rs, k) ==
    {w \in [1..(k + 1) -> GraphPreds(rs)] :
        \A i \in 1..k : Edge(rs, w[i], w[i + 1], FALSE) \/ Edge(rs, w[i], w[i + 1], TRUE)}

\* the dependency graph has a cycle that contains a negative edge
HasNegativeCycle(rs) ==
    \E k \in 1..Cardinality(GraphPreds(rs)) :
        \E w \in Walks(rs, k) : w[1] = w[k + 1] /\ Edge(rs, w[1], w[2], TRUE)

\* the largest number of negative edges on a path that starts at p and visits
\* no predicate twice
RECURSIVE NegDepth(_, _, _)
NegDepth(rs, p, visited) ==
    Max({0} \cup {NegDepth(rs, q, visited \cup {p}) + (IF Edge(rs, p, q, TRUE) THEN 1 ELSE 0) :
                     q \in {x \in GraphPreds(rs) \ (visited \cup {p}) :
                               Edge(rs, p, x, FALSE) \/ Edge(rs, p, x, TRUE)}})

\* the constants of a program and a set of facts (pairs <<pred, tuple>>)
ConstantsOf(rs, fs) ==
    UNION {{t \in Range(f[2]) : ~IsVar(t)} : f \in fs}
        \cup UNION {{t \in Range(rs[i].head_args) : ~IsVar(t)} : i \in 1..Len(rs)}
        \cup UNION {UNION {{t \in Range(rs[i].body[j].args) : ~IsVar(t)} :
                              j \in 1..Len(rs[i].body)} : i \in 1..Len(rs)}

Instance(args, theta) ==
    [i \in 1..Len(args) |-> IF IsVar(args[i]) THEN theta[args[i]] ELSE args[i]]

\* the body of the rule instance is true in the set of facts fs
BodyHolds(rule, theta, fs) ==
    \A j \in 1..Len(rule.body) :
        LET atom == rule.body[j]
            inst == Instance(atom.args, theta)
        IN  IF atom.pred \in BUILTINS THEN _eval_builtin(atom.pred, inst) # atom.negated
            ELSE IF atom.negated THEN <<atom.pred, inst>> \notin fs
            ELSE <<atom.pred, inst>> \in fs

\* the heads of the instances, over the constants U, of the rules of level k
\* whose bodies are true in fs
Consequences(rs, k, U, fs) ==
    UNION {{<<rs[i].head_pred, Instance(rs[i].head_args, theta)>> :
               theta \in {th \in [RuleVars(rs[i]) -> U] : BodyHolds(rs[i], th, fs)}} :
              i \in {x \in 1..Len(rs) : NegDepth(rs, rs[x].head_pred, {}) = k}}

RECURSIVE Saturate(_, _, _, _)
Saturate(rs, k, U, fs) ==
    IF Consequences(rs, k, U, fs) \subseteq fs THEN fs
    ELSE Saturate(rs, k, U, fs \cup Consequences(rs, k, U, fs))

RECURSIVE ModelUpTo(_, _, _, _)
ModelUpTo(rs, k, U, fs) ==
    IF k < 0 THEN fs
    ELSE Saturate(rs, k, U, ModelUpTo(rs, k - 1, U, fs))

\* the least model of the stratified program rs over the facts fs
LeastModel(rs, fs) ==
    ModelUpTo(rs, Max({0} \cup {NegDepth(rs, p, {}) : p \in GraphPreds(rs)}),
              ConstantsOf(rs, fs), fs)

\* the first evaluate() call on the Evaluator has ended, by return or exception
FirstCallEnded == calls = 1 /\ pc \in {"returned", "error"}

---------------------------------------------------------------------------
(* Properties of evaluate() *)

\* C1: for stratifiable safe rules and a ground EDB, evaluate() returns, and
\* the store it returns is the least model of the stratified program over the
\* EDB (the rules as expanded by the constructor).
C1_LeastModel ==
    (FirstCallEnded /\ SafeRules(Expanded) /\ ~HasNegativeCycle(Expanded))
        => (pc = "returned" /\ FactSet(self_facts) = LeastModel(Expanded, FactSet(edb)))

\* C3: stratum closure: once the fixed point of a stratum greater than the
\* stratum of p has started in an evaluate() call, no step adds a tuple to
\* facts[p].
C3_StratumClosure ==
    [][\A p \in DOMAIN self_facts' :
          (\E k \in started : k > StratumOf(p)) => self_facts'[p] = Get(self_facts, p)]_evars

\* C3 witness: a call has returned after inserting a tuple of a stratum-0
\* predicate and, in a later stratum, a tuple of a predicate of that stratum.
C3_Witness ==
    /\ pc = "returned"
    /\ \E f \in inserted : StratumOf(f[1]) = 0
    /\ \E f \in inserted : StratumOf(f[1]) > 0 /\ StratumOf(f[1]) \in started

\* C4: monotonicity: no step removes a tuple from the store, and a returned
\* store contains every EDB fact the Evaluator was seeded with.
C4_Monotone ==
    /\ [](pc = "returned" => FactSet(edb) \subseteq FactSet(self_facts))
    /\ [][FactSet(self_facts) \subseteq FactSet(self_facts')]_evars

\* C4 witness: evaluate() has returned a store that holds EDB facts and
\* tuples inserted by several rules' steps.
C4_Witness ==
    /\ pc = "returned"
    /\ FactSet(edb) # {}
    /\ Cardinality(inserted) >= 2

\* the transitive closure of a set of pairs
RECURSIVE Closure(_)
Closure(R) ==
    LET next == R \cup {<<xy[1][1], xy[2][2]>> : xy \in {z \in R \X R : z[1][2] = z[2][1]}}
    IN  IF next = R THEN R ELSE Closure(next)

TransitiveClosureProgram == <<RulePool[1], RulePool[2]>>

\* C5: with the two reach rules and an EDB of edge facts, evaluate() returns
\* normally and facts[reach] is the transitive closure of edge.
C5_TransitiveClosure ==
    (FirstCallEnded /\ rules = TransitiveClosureProgram /\ DOMAIN edb \subseteq {"edge"})
        => (pc = "returned" /\ Get(self_facts, "reach") = Closure(Get(edb, "edge")))

---------------------------------------------------------------------------
(* Properties of compute_strata *)

\* C2: constructing an Evaluator fails with the stratification error if and
\* only if the dependency graph of the expanded rules, builtins excluded, has
\* a cycle that contains a negative edge.
C2_RejectsExactlyNegativeCycles ==
    pc # "new" =>
        ((pc = "error" /\ err = "NotStratifiable") <=> HasNegativeCycle(Expanded))

\* C2 witness: a rule list was rejected whose negative cycle runs through
\* three predicates.
C2_Witness ==
    /\ pc = "error"
    /\ err = "NotStratifiable"
    /\ Cardinality(err_preds) = 3
    /\ \E i \in 1..Len(rules) : ~rules[i].body[1].negated

\* C9: a map returned by compute_strata gives every predicate of a head or
\* of a non-builtin body atom a number >= 0, not below the stratum of any
\* positive dependency and above the stratum of any negative dependency.
C9_StrataConstraints ==
    pc = "ready" =>
        /\ DOMAIN self_strata = GraphPreds(Expanded)
        /\ \A p \in DOMAIN self_strata : self_strata[p] \in Nat
        /\ \A p, q \in DOMAIN self_strata :
              /\ Edge(Expanded, p, q, FALSE) => self_strata[p] >= self_strata[q]
              /\ Edge(Expanded, p, q, TRUE) => self_strata[p] > self_strata[q]

\* C9 witness: a map was returned for a chain of two negative dependencies
\* and one positive dependency.
C9_Witness ==
    /\ pc = "ready"
    /\ \E p, q, r \in DOMAIN self_strata :
          /\ Edge(Expanded, p, q, TRUE) /\ Edge(Expanded, q, r, TRUE)
          /\ Edge(Expanded, r, r, FALSE)
          /\ self_strata[p] = 2

---------------------------------------------------------------------------
(* Properties of query *)

\* the ground tuple t is an instance of the goal arguments: same length, the
\* constants agree, and equal variables stand at positions with equal values
Matches(args, t) ==
    /\ Len(args) = Len(t)
    /\ \A i \in 1..Len(args) : ~IsVar(args[i]) => args[i] = t[i]
    /\ \A i, j \in 1..Len(args) : (IsVar(args[i]) /\ args[i] = args[j]) => t[i] = t[j]

\* the goal arguments with each variable replaced by its binding
Substitute(args, sb) ==
    [i \in 1..Len(args) |-> IF args[i] \in DOMAIN sb THEN sb[args[i]] ELSE args[i]]

\* C6: query returns one substitution for each tuple of facts[pred] that the
\* goal matches and none for any other tuple; a returned substitution applied
\* to the goal gives a tuple of facts[pred]; a goal with a repeated variable
\* matches only tuples with equal components there; query leaves the store
\* as it is.
C6_QuerySoundComplete ==
    /\ [](q_goal # << >> =>
            LET hits == {t \in Get(self_facts, q_goal[1]) : Matches(q_goal[2], t)}
            IN  /\ BagCardinality(q_results) = Cardinality(hits)
                /\ \A sb \in BagToSet(q_results) :
                      /\ DOMAIN sb = VarsOf(q_goal[2])
                      /\ Substitute(q_goal[2], sb) \in hits
                /\ \A t \in hits :
                      \E sb \in BagToSet(q_results) : Substitute(q_goal[2], sb) = t)
    /\ [][q_goal' # << >> => self_facts' = self_facts]_evars

\* C6 witness: the goal reach(?X, ?X) was asked of a store whose reach tuples
\* include one with equal and one with different components, and one
\* substitution came back.
C6_Witness ==
    /\ q_goal = <<"reach", <<"?X", "?X">> >>
    /\ BagCardinality(q_results) = 1
    /\ \E t \in Get(self_facts, "reach") : t[1] # t[2]

---------------------------------------------------------------------------
(* Properties of repeated evaluation *)

\* C7: order insensitivity: when evaluate() returned a store for a rule
\* list, it returns the same store for every other order of that list (and
\* for every order in which the matcher enumerates a fact set).
C7_OrderInsensitive ==
    (run = 2 /\ FirstCallEnded /\ first.status = "returned")
        => (pc = "returned" /\ self_facts = first.facts)

\* C8: idempotence: a fresh Evaluator on the same rules, conditions and EDB
\* returns the store the first one returned, and a second evaluate() call on
\* the same Evaluator inserts no tuple.
C8_Idempotent ==
    /\ (run = 2 /\ FirstCallEnded /\ rules = first.rules
            /\ first.status = "returned" /\ pc = "returned")
          => self_facts = first.facts
    /\ (calls = 2 /\ pc \in {"returned", "error"}) => inserted = {}

---------------------------------------------------------------------------
(* Properties of validate *)

\* the variables of the rule's body atoms that are not negated
PositiveBodyVars(rule) ==
    LET body == GetOr(rule, "body", << >>)
    IN  {v \in UNION {Range(body[k].args) : k \in {j \in 1..Len(body) :
                         ~GetOr(body[j], "negated", FALSE)}} : IsVar(v)}

HeadVars(rule) ==
    IF "head" \in DOMAIN rule THEN {v \in Range(rule.head.args) : IsVar(v)} ELSE {}

NegatedVars(rule, k) ==
    IF GetOr(rule.body[k], "negated", FALSE)
    THEN {v \in Range(rule.body[k].args) : IsVar(v)} ELSE {}

Reported(code, path, about) ==
    \E i \in 1..Len(report.errors) : report.errors[i] = Error(code, path, about)

\* every unbound head variable and every unbound variable of a negated atom
\* is reported
SafetyReported ==
    /\ \A v \in HeadVars(rule_json) \ PositiveBodyVars(rule_json) :
          Reported("E_VAR_UNBOUND_HEAD", "/head/args", v)
    /\ \A k \in 1..Len(rule_json.body) :
          \A v \in NegatedVars(rule_json, k) \ PositiveBodyVars(rule_json) :
             Reported("E_VAR_UNBOUND_NEGATED", BodyPath(k), v)

\* a rule with is_valid = true is safe
ValidIsSafe ==
    report.is_valid =>
        /\ HeadVars(rule_json) \subseteq PositiveBodyVars(rule_json)
        /\ \A k \in 1..Len(rule_json.body) :
              NegatedVars(rule_json, k) \subseteq PositiveBodyVars(rule_json)

EarlierStageCodes ==
    {"E_PRED_UNKNOWN", "E_ARITY_MISMATCH", "E_PRED_NOT_ALLOWED_IN_HEAD",
     "E_PRED_NOT_ALLOWED_IN_BODY", "E_NEGATION_NOT_ALLOWED_FOR_PRED", "E_ENUM_VALUE_INVALID"}

\* the report shows that the safety stage ran: no schema violation, and
\* fewer than MAX_ERRORS errors of the stages before it
SafetyStageRan ==
    /\ \A i \in 1..Len(report.errors) : report.errors[i].code # "E_SCHEMA_VIOLATION"
    /\ Cardinality({i \in 1..Len(report.errors) :
                       report.errors[i].code \in EarlierStageCodes}) < MAX_ERRORS

---------------------------------------------------------------------------
(* Properties of validate: negation and the closed world *)

\* the positions of the negated atoms of the rule's body
NegatedAtoms(rule) ==
    {k \in 1..Len(GetOr(rule, "body", << >>)) : GetOr(rule.body[k], "negated", FALSE)}

\* name/arity of an atom as it is written in the rule
NameArity(atom) == atom.pred \o "/" \o ToString(Len(atom.args))

\* the manifest lists the predicate and permits its use in a negated body atom
PermitsNegated(name) ==
    \E e \in lookup_by_name(name) : e.allowed_in_negated_body

\* the rule carries an assumption of type closed_world about p
HasClosedWorldAssumption(rule, p) ==
    LET assumptions == GetOr(rule, "assumptions", << >>)
    IN  \E i \in 1..Len(assumptions) :
           /\ GetOr(assumptions[i], "type", "") = "closed_world"
           /\ "about" \in DOMAIN assumptions[i]
           /\ GetOr(assumptions[i].about, "pred", "") = p

\* the report shows that the assumptions stage ran: no schema violation, and
\* fewer than MAX_ERRORS errors of the stages before it
AssumptionCodes ==
    {"E_ASSUMPTION_PRED_INVALID", "E_ASSUMPTION_BAD_ATOM_INDEX", "E_ASSUMPTION_BAD_ARG_INDEX",
     "E_ASSUMPTION_CONST_MISMATCH", "E_ASSUMPTION_REQUIRED_CLOSED_WORLD"}

AssumptionsStageRan ==
    /\ \A i \in 1..Len(report.errors) : report.errors[i].code # "E_SCHEMA_VIOLATION"
    /\ Cardinality({i \in 1..Len(report.errors) :
                       report.errors[i].code \notin AssumptionCodes}) < MAX_ERRORS

\* C11: in every rule whose report has is_valid = true, every negated body
\* atom has a predicate that the manifest permits in negated body atoms or
\* whose name/arity is in the closed-world set, and for every negated atom
\* whose name/arity is in the closed-world set the rule carries an assumption
\* of type closed_world with that about.pred.  A negated atom of a listed
\* predicate that is neither permitted nor closed-world is reported with
\* NEGATION_NOT_ALLOWED_FOR_PRED unless the schema stage rejected the rule,
\* and a missing closed_world assumption is reported with
\* ASSUMPTION_REQUIRED_CLOSED_WORLD when the assumptions stage runs.
C11_ClosedWorldObligation ==
    report # << >> =>
        \A k \in NegatedAtoms(rule_json) :
           LET atom == rule_json.body[k]
               p == NameArity(atom)
           IN  /\ report.is_valid =>
                     /\ PermitsNegated(atom.pred) \/ p \in naf_closed_world
                     /\ p \in naf_closed_world => HasClosedWorldAssumption(rule_json, p)
               /\ (/\ schema_errors = << >>
                   /\ lookup_by_name(atom.pred) # {}
                   /\ ~PermitsNegated(atom.pred)
                   /\ \A e \in lookup_by_name(atom.pred) : e.pred \notin naf_closed_world)
                     => \E e \in lookup_by_name(atom.pred) :
                           Reported("E_NEGATION_NOT_ALLOWED_FOR_PRED", BodyPath(k) \o "/pred",
                                    e.pred)
               /\ (/\ AssumptionsStageRan
                   /\ \E e \in lookup_by_name(atom.pred) : e.pred = p
                   /\ p \in naf_closed_world
                   /\ ~HasClosedWorldAssumption(rule_json, p))
                     => Reported("E_ASSUMPTION_REQUIRED_CLOSED_WORLD", "/assumptions", p)

\* C11 witness: an accepted rule with a negated atom of the closed-world
\* predicate present/1, carrying the closed_world assumption about present/1.
C11_Witness ==
    /\ report # << >>
    /\ report.is_valid
    /\ \E k \in NegatedAtoms(rule_json) :
          /\ NameArity(rule_json.body[k]) = "present/1"
          /\ "present/1" \in naf_closed_world
          /\ ~PermitsNegated("present")
    /\ HasClosedWorldAssumption(rule_json, "present/1")

\* C11 second case: a rule with a negated atom of verdict/1, which is neither
\* permitted in negated atoms nor closed-world, is reported and not accepted.
C11_WitnessRejected ==
    /\ report # << >>
    /\ ~report.is_valid
    /\ \E k \in NegatedAtoms(rule_json) :
          /\ rule_json.body[k].pred = "verdict"
          /\ Reported("E_NEGATION_NOT_ALLOWED_FOR_PRED", BodyPath(k) \o "/pred", "verdict/1")

---------------------------------------------------------------------------
(* Properties of validate: conformance to the manifest *)

\* the atoms of the rule with their paths: the head and the body atoms
AtomPaths(rule) ==
    (IF "head" \in DOMAIN rule THEN {<<rule.head, "/head", TRUE>>} ELSE {})
        \cup {<<rule.body[k], BodyPath(k), FALSE>> : k \in 1..Len(GetOr(rule, "body", << >>))}

\* the manifest's predicate of that name: {} if it lists none
Listed(name) ==
    {Manifest.predicates[i] : i \in {j \in DOMAIN Manifest.predicates :
                                        Manifest.predicates[j].name = name}}

\* every atom that does not conform to the manifest is reported
ConformanceReported ==
    \A ap \in AtomPaths(rule_json) :
       LET atom == ap[1]
           path == ap[2]
           in_head == ap[3]
       IN  /\ Listed(atom.pred) = {} => Reported("E_PRED_UNKNOWN", path \o "/pred", atom.pred)
           /\ \A m \in Listed(atom.pred) :
                 /\ Len(atom.args) # m.arity =>
                       Reported("E_ARITY_MISMATCH", path \o "/args", atom.pred)
                 /\ (in_head /\ ~_build_entry(m).allowed_in_head) =>
                       Reported("E_PRED_NOT_ALLOWED_IN_HEAD", path \o "/pred", atom.pred)
                 /\ (/\ ~in_head
                     /\ ~GetOr(atom, "negated", FALSE)
                     /\ ~_build_entry(m).allowed_in_body) =>
                       Reported("E_PRED_NOT_ALLOWED_IN_BODY", path \o "/pred", atom.pred)

\* in a rule with is_valid = true every predicate is listed, used with its
\* arity, and used in an allowed position
ValidConforms ==
    report.is_valid =>
        \A ap \in AtomPaths(rule_json) :
           /\ Listed(ap[1].pred) # {}
           /\ \A m \in Listed(ap[1].pred) :
                 /\ Len(ap[1].args) = m.arity
                 /\ ap[3] => _build_entry(m).allowed_in_head
                 /\ (~ap[3] /\ ~GetOr(ap[1], "negated", FALSE)) => _build_entry(m).allowed_in_body

---------------------------------------------------------------------------
(* Properties of validate on any JSON object *)

\* validate has ended, with a report or with an exception
Validated == report # << >>

\* validate has returned a ValidationReport
Returned == Validated /\ "exception" \notin DOMAIN report

\* C13: for every rule_json (a body that is missing, null or has entries
\* that are no objects, assumptions with a negative or non-integer
\* atom_index, predicates whose value domain has no enum_arg_index) and every
\* source_text, validate returns a ValidationReport and raises no exception.
C13_NeverThrows ==
    Validated => Returned

\* C14: the errors list of every report validate returns has at most
\* MAX_ERRORS entries, and the report has is_valid = true exactly when its
\* errors list is empty, whatever its warnings.
C14_ErrorCap ==
    Returned =>
        /\ Len(report.errors) <= MAX_ERRORS
        /\ report.is_valid <=> Len(report.errors) = 0

---------------------------------------------------------------------------
(* Properties of the fact store and of the expansion of conditions *)

\* every tuple of every fact set of the store consists of constants
GroundStore(facts) ==
    \A p \in DOMAIN facts : \A t \in facts[p] : ~AnyVar(t)

\* C15: the EDB holding constants only, every tuple of every fact set holds
\* constants only in every state reached during evaluate(): a rule instance
\* whose head keeps a variable under the matched substitution inserts
\* nothing, so every head variable of an instance that inserts a fact is
\* bound to a constant.
C15_GroundFacts ==
    GroundStore(edb) => GroundStore(self_facts)

\* C15 witness: evaluate() returned for a rule list with q(?Y) :- dom(?X),
\* whose head variable the body does not bind, on a store with a dom fact;
\* other rules derived facts, and no q fact was inserted.
C15_Witness ==
    /\ pc = "returned"
    /\ \E i \in 1..Len(rules) : rules[i] = RulePool[4]
    /\ GroundStore(edb)
    /\ Get(self_facts, "dom") # {}
    /\ Get(self_facts, "q") = {}
    /\ FactSet(self_facts) # FactSet(edb)

\* the meets_condition atoms of the rule's body whose condition id is known
ConditionAtoms(rule) ==
    {j \in 1..Len(rule.body) :
        /\ rule.body[j].pred = "meets_condition"
        /\ Len(rule.body[j].args) = 2
        /\ StripQuotes(rule.body[j].args[2]) \in DOMAIN conditions}

\* the rule without those atoms: the rest of the body
RestOfBody(rule) ==
    [body |-> [k \in 1..(Len(rule.body) - Cardinality(ConditionAtoms(rule))) |->
                  rule.body[CHOOSE j \in 1..Len(rule.body) :
                               /\ j \notin ConditionAtoms(rule)
                               /\ Cardinality({x \in 1..j : x \notin ConditionAtoms(rule)}) = k]]]

\* the first variable of a list of atoms: {} if it has none
FirstVariable(atoms) ==
    LET occ == {<<i, j>> \in (1..Len(atoms)) \X (1..3) :
                   j <= Len(atoms[i].args) /\ IsVar(atoms[i].args[j])}
    IN  {atoms[o[1]].args[o[2]] :
            o \in {x \in occ : \A y \in occ : x[1] < y[1] \/ (x[1] = y[1] /\ x[2] <= y[2])}}

\* there is an assignment of the condition's other variables, over U, under
\* which every atom of required_facts is true in fs with the condition's
\* first variable replaced by entity
ConditionHolds(required_facts, entity, U, fs) ==
    LET first_var == FirstVariable(required_facts)
        others == UNION {VarsOf(required_facts[k].args) : k \in 1..Len(required_facts)} \ first_var
    IN  \E sigma \in [others -> U] :
           \A k \in 1..Len(required_facts) :
              LET args == required_facts[k].args
                  inst == [m \in 1..Len(args) |->
                              IF args[m] \in first_var THEN entity
                              ELSE IF IsVar(args[m]) THEN sigma[args[m]] ELSE args[m]]
              IN  (<<required_facts[k].pred, inst>> \in fs) # required_facts[k].negated

\* the instances of the rule's head for which the rest of the body holds and
\* every known condition of the body holds for its entity
InlinedHeads(rule, U, fs) ==
    {Instance(rule.head_args, theta) :
        theta \in {th \in [RuleVars(rule) -> U] :
                      /\ BodyHolds(RestOfBody(rule), th, fs)
                      /\ \A j \in ConditionAtoms(rule) :
                            ConditionHolds(conditions[StripQuotes(rule.body[j].args[2])],
                                           Instance(<<rule.body[j].args[1]>>, th)[1], U, fs)}}

\* C16: for a rule whose body contains meets_condition(E, id) with id a known
\* condition, the evaluator derives the rule's head for a binding of E if and
\* only if the rest of the body holds and some assignment of the condition's
\* other variables makes every atom of required_facts hold with the
\* condition's first variable replaced by E: when evaluate() has ended, the
\* facts of the head predicate include these head instances, and are exactly
\* these when no other rule and no EDB fact has that predicate.
C16_ConditionInlining ==
    FirstCallEnded =>
        \A i \in 1..Len(rules) :
           ConditionAtoms(rules[i]) # {} =>
              LET fs == FactSet(self_facts)
                  U == ConstantsOf(rules, fs) \cup {"active"}
                  heads == InlinedHeads(rules[i], U, fs)
              IN  /\ heads \subseteq Get(self_facts, rules[i].head_pred)
                  /\ (/\ \A k \in 1..Len(rules) : k # i => rules[k].head_pred # rules[i].head_pred
                      /\ Get(edb, rules[i].head_pred) = {})
                        => Get(self_facts, rules[i].head_pred) \subseteq heads

---------------------------------------------------------------------------
(* Properties of _unify *)

\* two substitutions are equivalent on the variables V: each variable walks
\* to the same constant under both, and two variables are identified by one
\* exactly when they are identified by the other
EquivalentOn(V, s1, s2) ==
    /\ \A v \in V :
          (~IsVar(_walk(v, s1)) \/ ~IsVar(_walk(v, s2))) => _walk(v, s1) = _walk(v, s2)
    /\ \A v, w \in V :
          (_walk(v, s1) = _walk(w, s1)) <=> (_walk(v, s2) = _walk(w, s2))

\* C17: for tuples a and b of the same length, _unify(a, b, {}) succeeds if
\* and only if _unify(b, a, {}) succeeds, and then the two substitutions are
\* equivalent: every variable of a or b walks to the same constant under
\* both, and two variables are identified by one exactly when they are
\* identified by the other.
C17_UnifySymmetric ==
    (unified.called /\ unified_swapped.called /\ Len(tuple_a) = Len(tuple_b)) =>
        /\ (unified.result = {}) <=> (unified_swapped.result = {})
        /\ \A s1 \in unified.result : \A s2 \in unified_swapped.result :
              EquivalentOn(VarsOf(tuple_a) \cup VarsOf(tuple_b), s1, s2)

\* C17 witness: (?X, ?Y, a) and (?Y, b, ?Z), with variables on both sides,
\* were unified in both orders, and both results send ?X and ?Y to b and ?Z
\* to a.
C17_Witness ==
    /\ unified.called /\ unified_swapped.called
    /\ tuple_a = <<"?X", "?Y", "a">>
    /\ tuple_b = <<"?Y", "b", "?Z">>
    /\ unified.result # {} /\ unified_swapped.result # {}
    /\ \A sb \in unified.result \cup unified_swapped.result :
          _apply(<<"?X", "?Y", "?Z">>, sb) = <<"b", "b", "a">>

\* C17 second case: (?X, ?X) and (a, b) fail to unify in both orders.
C17_WitnessClash ==
    /\ unified.called /\ unified_swapped.called
    /\ tuple_a = <<"?X", "?X">>
    /\ tuple_b = <<"a", "b">>
    /\ unified.result = {} /\ unified_swapped.result = {}

---------------------------------------------------------------------------
(* Properties of validate: the references of assumptions *)

\* the about objects of the rule's assumptions, by position
Abouts(rule) ==
    LET assumptions == GetOr(rule, "assumptions", << >>)
    IN  [i \in 1..Len(assumptions) |-> GetOr(assumptions[i], "about", [k \in {} |-> k])]

\* atom_index is given and is no index of the rule's body
BadAtomIndex(rule, about) ==
    /\ "atom_index" \in DOMAIN about
    /\ about.atom_index \notin 0..(Len(GetOr(rule, "body", << >>)) - 1)

\* arg_index is given and is not in 1..arity of the predicate about.pred names
BadArgIndex(about) ==
    /\ "arg_index" \in DOMAIN about
    /\ \E e \in AssumptionEntry(about) : about.arg_index \notin 1..e.arity

AssumptionPath(i) == "/assumptions/" \o ToString(i - 1) \o "/about/"

\* C18: for every assumption of a rule, validate reports
\* ASSUMPTION_BAD_ATOM_INDEX when atom_index is given and is no index
\* 0..len(body)-1 of the body, and ASSUMPTION_BAD_ARG_INDEX when arg_index is
\* given and is not in 1..arity of the referenced predicate, whether or not
\* atom_index is given; so no rule with is_valid = true has an assumption
\* with an atom_index or arg_index out of range.
C18_AssumptionReferences ==
    Returned =>
        \A i \in DOMAIN Abouts(rule_json) :
           LET about == Abouts(rule_json)[i]
           IN  /\ BadAtomIndex(rule_json, about) =>
                     /\ Reported("E_ASSUMPTION_BAD_ATOM_INDEX", AssumptionPath(i) \o "atom_index",
                                 GetOr(about, "pred", ""))
                     /\ ~report.is_valid
               /\ BadArgIndex(about) =>
                     /\ BadAtomIndex(rule_json, about)
                        \/ Reported("E_ASSUMPTION_BAD_ARG_INDEX", AssumptionPath(i) \o "arg_index",
                                    GetOr(about, "pred", ""))
                     /\ ~report.is_valid

---------------------------------------------------------------------------
(* Properties of validate: the whitelist mode *)

\* the rule's atoms (objects with a pred key) whose predicate the manifest
\* does not list
UnlistedAtoms(rule) ==
    LET body == GetOr(rule, "body", << >>)
    IN  (IF "head" \in DOMAIN rule /\ Listed(rule.head.pred) = {} THEN {"/head"} ELSE {})
            \cup {BodyPath(k) : k \in {j \in 1..Len(body) :
                                          /\ isinstance_dict(body[j])
                                          /\ Listed(GetOr(body[j], "pred", "")) = {}}}

\* C19: when the policy's whitelist_mode is allow_unlisted, an atom whose
\* predicate is absent from the manifest is no error (no PRED_UNKNOWN is
\* reported) and its checks are skipped with a warning; PRED_UNKNOWN is
\* reported only under allow_only_listed.
C19_WhitelistMode ==
    Returned =>
        /\ whitelist_mode = "allow_unlisted" =>
              /\ \A i \in 1..Len(report.errors) : report.errors[i].code # "E_PRED_UNKNOWN"
              /\ UnlistedAtoms(rule_json) # {} => Len(report.warnings) > 0
        /\ (\E i \in 1..Len(report.errors) : report.errors[i].code = "E_PRED_UNKNOWN")
              => whitelist_mode = "allow_only_listed"

---------------------------------------------------------------------------
(* Properties of normalize_rule *)

\* the atom n has the predicate name, the argument list and, where the atom
\* a has one, the negated flag of a
AtomKept(a, n) ==
    /\ DOMAIN a \subseteq DOMAIN n
    /\ "pred" \in DOMAIN a => n.pred = a.pred
    /\ "args" \in DOMAIN a => n.args = a.args
    /\ "negated" \in DOMAIN a => n.negated = a.negated

\* every atom of the rule r is kept in n
AtomsKept(r, n) ==
    /\ ("head" \in DOMAIN r /\ isinstance_dict(r.head)) => AtomKept(r.head, n.head)
    /\ ("body" \in DOMAIN r /\ isinstance_list(r.body)) =>
          /\ Len(n.body) = Len(r.body)
          /\ \A k \in 1..Len(r.body) :
                IF isinstance_dict(r.body[k])
                THEN isinstance_dict(n.body[k]) /\ AtomKept(r.body[k], n.body[k])
                ELSE ~isinstance_dict(n.body[k]) /\ n.body[k] = r.body[k]

\* the rule normalize_rule gives for rule_json is a fixed point of
\* normalize_rule and keeps the atoms of rule_json, and it is the
\* normalized_rule of the report
NormalizedOnce ==
    LET n == normalize_rule(rule_json)
    IN  /\ normalize_rule(n) = n
        /\ AtomsKept(rule_json, n)
        /\ (Returned /\ schema_errors = << >>) => report.normalized_rule = {n}

\* C20: for every rule r, normalize_rule(normalize_rule(r)) equals
\* normalize_rule(r); normalize_rule leaves its argument unchanged, and
\* changes no predicate name, argument list or negated flag that was present.
C20_NormalizerRoundTrip ==
    [](rule_json # << >> => NormalizedOnce) /\ [][rule_json' = rule_json]_vars

\* C20 witness: validate returned for a rule with a head without the negated
\* key, a negated body atom, no assumptions key and a quote with spaces around
\* it; the normalized rule has negated = false in the head, the body atom
\* still negated, assumptions = [] and the quote stripped.
C20_Witness ==
    /\ Returned
    /\ "head" \in DOMAIN rule_json /\ "negated" \notin DOMAIN rule_json.head
    /\ "body" \in DOMAIN rule_json /\ isinstance_list(rule_json.body)
    /\ Len(rule_json.body) > 0
    /\ \A k \in 1..Len(rule_json.body) :
          /\ isinstance_dict(rule_json.body[k])
          /\ rule_json.body[k].pred = "present"
          /\ GetOr(rule_json.body[k], "negated", FALSE)
    /\ "assumptions" \notin DOMAIN rule_json
    /\ "provenance" \in DOMAIN rule_json /\ isinstance_dict(rule_json.provenance)
    /\ GetOr(rule_json.provenance, "quote", "") = " a  b "
    /\ \A n \in report.normalized_rule :
          /\ n.head.negated = FALSE
          /\ n.body[1].negated = TRUE
          /\ n.assumptions = << >>
          /\ n.provenance.quote = "a  b"
          /\ n # rule_json
    /\ report.normalized_rule # {}

---------------------------------------------------------------------------
(* Properties of parse_goal *)

LowerLetters ==
    {"a", "b", "c", "d", "e", "f", "g", "h", "i", "j", "k", "l", "m", "n", "o", "p", "q",
     "r", "s", "t", "u", "v", "w", "x", "y", "z"}

\* the rule of atom predicates: ^[a-z][a-z0-9_]*$
AtomPredicateRule(name) ==
    /\ Len(name) >= 1
    /\ SubSeq(name, 1, 1) \in LowerLetters
    /\ \A i \in 2..Len(name) : SubSeq(name, i, i) \in LowerLetters \cup Digits \cup {"_"}

\* str, spaces around it aside, is a name, or a name followed by one
\* parenthesized list, and the name follows the rule of atom predicates
GoalForm(str) ==
    LET t == Strip(str)
    IN  \E n \in 1..Len(t) :
           /\ AtomPredicateRule(SubSeq(t, 1, n))
           /\ \/ n = Len(t)
              \/ LET rest == StripLeft(SubSeq(t, n + 1, Len(t)))
                 IN  /\ Len(rest) >= 2
                     /\ SubSeq(rest, 1, 1) = "("
                     /\ SubSeq(rest, Len(rest), Len(rest)) = ")"
                     /\ \A i \in 2..(Len(rest) - 1) : SubSeq(rest, i, i) \notin {")"}
                     /\ SubSeq(t, n + 1, n + 1) \in {" ", "("}

\* C21: parse_goal accepts exactly the strings of the form name or
\* name(arg, ..., arg) whose name follows the rule of atom predicates,
\* returning the name and the arguments without surrounding quotes, the empty
\* tuple when the list is missing or empty; every other string raises the
\* parse error.
C21_GoalParser ==
    parsed.called =>
        /\ (parsed.result # {}) <=> GoalForm(goal_str)
        /\ \A x \in parsed.result :
              /\ AtomPredicateRule(x[1])
              /\ \A i \in 1..Len(x[2]) :
                    Len(x[2][i]) > 0 => /\ SubSeq(x[2][i], 1, 1) \notin QuoteChars
                                        /\ SubSeq(x[2][i], Len(x[2][i]), Len(x[2][i])) \notin QuoteChars

---------------------------------------------------------------------------
(* Properties of the steps of _eval_stratum *)

\* the rule whose stream _eval_stratum consumes matches a positive body atom
\* against the set of its own head predicate, which the matcher enumerates
EnumeratesOwnHead ==
    /\ pc = "rule"
    /\ LiveIndex(StratumRules(s)[ri], self_facts) # 0

\* C22: while _eval_stratum consumes the stream of _match_body for a rule, no
\* tuple is inserted into a fact set the suspended matcher still enumerates:
\* a rule whose head predicate is also a positive body atom is evaluated to
\* the end of its stream, the set of its head predicate staying as it was
\* and the enumeration not being invalidated.
C22_NoMutationUnderIteration ==
    [][EnumeratesOwnHead =>
          /\ Get(self_facts', StratumRules(s)[ri].head_pred)
                = Get(self_facts, StratumRules(s)[ri].head_pred)
          /\ err' # "RuntimeError"]_vars

\* the tuples the current call has inserted in the stratum it is in
InsertedInStratum ==
    {f \in inserted : StratumOf(f[1]) = StratumRange[s]}

\* the rounds begun in the current stratum are at most the tuples inserted in
\* it plus one
RoundsBounded ==
    pc \in {"round", "rule"} => iters <= Cardinality(InsertedInStratum) + 1

\* C23: for every finite rule set and finite ground EDB evaluate() ends; in
\* each stratum every round but the last inserts a new tuple, so the rounds
\* of a stratum are at most the tuples inserted in it plus one; and the
\* overrun error is raised only after _MAX_STRATUM_ITERS rounds.
C23_Termination ==
    /\ (pc \in {"stratum", "round", "rule"}) ~> (pc \in {"returned", "error"})
    /\ [](RoundsBounded /\ (err = "FixedPointOverrun" => iters >= _MAX_STRATUM_ITERS))

\* C23 witness: a stratum's loop is about to end after three rounds, two of
\* which inserted tuples.
C23_Witness ==
    /\ pc = "round"
    /\ ~changed
    /\ iters = 3
    /\ Cardinality(InsertedInStratum) >= 2

---------------------------------------------------------------------------
(* A validated rule in the matcher *)

\* loader._atom_from_dict(d), on an atom whose arguments are strings
_atom_from_dict(d) ==
    Atom(GetOr(d, "pred", ""), GetOr(d, "args", << >>), GetOr(d, "negated", FALSE))

\* whether _match_body(body, facts, subst, start) takes, on some branch, the
\* return of a builtin atom or of a negated atom whose grounded arguments
\* still hold a variable
RECURSIVE PrunesUnbound(_, _, _, _)
PrunesUnbound(body, facts, subst, start) ==
    IF start > Len(body) THEN FALSE
    ELSE LET atom == body[start]
             grounded == _apply(atom.args, subst)
         IN  IF atom.pred \in BUILTINS
             THEN IF AnyVar(grounded) THEN TRUE
                  ELSE /\ _eval_builtin(atom.pred, grounded) # atom.negated
                       /\ PrunesUnbound(body, facts, subst, start + 1)
             ELSE IF atom.negated
             THEN IF AnyVar(grounded) THEN TRUE
                  ELSE /\ grounded \notin Get(facts, atom.pred)
                       /\ PrunesUnbound(body, facts, subst, start + 1)
             ELSE \E fact_args \in Get(facts, atom.pred) :
                     \E new_subst \in _unify(atom.args, fact_args, subst) :
                        PrunesUnbound(body, facts, new_subst, start + 1)

\* a ground store with a tuple for every input predicate of the manifest
ValidatorFacts ==
    FactsOf({ <<"present", <<"a">> >>, <<"dom", <<"a">> >>, <<"dom", <<"2">> >>,
              <<"status", <<"a", "open">> >> })

\* the body of the rule validate was given, as the loader hands it to the
\* Evaluator
LoadedBody == [i \in 1..Len(rule_json.body) |-> _atom_from_dict(rule_json.body[i])]

\* the validator accepted a rule without meets_condition atoms
AcceptedRule ==
    /\ Returned
    /\ report.is_valid
    /\ \A i \in 1..Len(rule_json.body) : rule_json.body[i].pred # "meets_condition"

\* C24: for every rule the validator accepts (is_valid = true) without
\* meets_condition atoms, after _safe_reorder_body every argument of a builtin
\* atom and of a negated atom is ground whenever _match_body reaches the
\* atom: no branch is pruned because such an atom still has a variable.
C24_ReorderingGrounds ==
    AcceptedRule =>
        ~PrunesUnbound(_safe_reorder_body(LoadedBody), ValidatorFacts, EmptySubst, 1)

\* the group of an atom in the order positive, builtin, negated
BodyGroup(a) == IF a.negated THEN 3 ELSE IF a.pred \in BUILTINS THEN 2 ELSE 1

\* the one-to-one maps of the positions of a list of n entries
Positions(n) ==
    {f \in [1..n -> 1..n] : \A i, j \in 1..n : i # j => f[i] # f[j]}

\* result holds the atoms of body, each once, group by group, the atoms of
\* a group in the order they have in body
StableGrouping(body, result) ==
    /\ Len(result) = Len(body)
    /\ \E f \in Positions(Len(body)) :
          /\ \A k \in 1..Len(body) : result[k] = body[f[k]]
          /\ \A k, l \in 1..Len(body) :
                k < l => /\ BodyGroup(result[k]) <= BodyGroup(result[l])
                         /\ BodyGroup(result[k]) = BodyGroup(result[l]) => f[k] < f[l]

\* C25: _safe_reorder_body returns a permutation of the body: non-negated
\* non-builtin atoms first, then non-negated builtin atoms, then negated
\* atoms, each group in its original order; reordering the result again
\* changes nothing.
C25_BodyReordering ==
    reordered.called =>
        /\ StableGrouping(given_body, reordered.result)
        /\ _safe_reorder_body(reordered.result) = reordered.result

\* C25 witness: a body with a negated builtin atom first, then a builtin
\* atom, then a positive atom has been reordered, and the result differs
\* from it.
C25_Witness ==
    /\ reordered.called
    /\ Len(given_body) = 3
    /\ BodyGroup(given_body[1]) = 3 /\ given_body[1].pred \in BUILTINS
    /\ BodyGroup(given_body[2]) = 2
    /\ BodyGroup(given_body[3]) = 1
    /\ reordered.result # given_body

\* the predicates on a cycle of the dependency graph that visits no
\* predicate twice and has a negative edge
OnNegativeCycle(rs) ==
    {x \in GraphPreds(rs) :
        \E k \in 1..Cardinality(GraphPreds(rs)) :
            \E w \in Walks(rs, k) :
                /\ w[1] = w[k + 1]
                /\ \A i, j \in 1..k : i # j => w[i] # w[j]
                /\ \E i \in 1..k : Edge(rs, w[i], w[i + 1], TRUE)
                /\ \E i \in 1..k : w[i] = x}

\* C26: when compute_strata fails, the set of predicates it computes for the
\* error is exactly the set of predicates that lie on a dependency cycle
\* with a negative edge.
C26_CycleReport ==
    err = "NotStratifiable" => err_preds = OnNegativeCycle(Expanded)

\* the places <<rule, atom>> of rules that hold a meets_condition/2 atom
\* whose condition id is a key of conditions
ExpansionSites ==
    {x \in (1..Len(rules)) \X (1..3) :
        /\ x[2] <= Len(rules[x[1]].body)
        /\ x[2] \in ConditionAtoms(rules[x[1]])}

\* place x comes before place y in the order the rules and their bodies
\* are gone through
SiteBefore(x, y) == x[1] < y[1] \/ (x[1] = y[1] /\ x[2] < y[2])

\* the number of expansions before the one at place x
SiteCounter(x) == Cardinality({y \in ExpansionSites : SiteBefore(y, x)})

\* the required facts of the condition named at place x
SiteFacts(x) == conditions[StripQuotes(rules[x[1]].body[x[2]].args[2])]

\* the variables of the condition at place x other than its first one
OtherVariables(x) ==
    UNION {VarsOf(SiteFacts(x)[k].args) : k \in 1..Len(SiteFacts(x))}
        \ FirstVariable(SiteFacts(x))

\* the names the other variables of the condition get at place x
IntroducedVariables(x) ==
    {v \o "_mc" \o ToString(SiteCounter(x)) : v \in OtherVariables(x)}

\* the atoms that stand for the atom at place j of rule i after the
\* expansion: the atom itself, or the required facts with the first variable
\* replaced by the entity and the others suffixed with the place's counter
SiteAtoms(i, j) ==
    IF <<i, j>> \notin ExpansionSites THEN <<rules[i].body[j]>>
    ELSE [k \in 1..Len(SiteFacts(<<i, j>>)) |->
            LET atom == SiteFacts(<<i, j>>)[k]
            IN  Atom(atom.pred,
                     [n \in 1..Len(atom.args) |->
                        IF atom.args[n] \in FirstVariable(SiteFacts(<<i, j>>))
                        THEN rules[i].body[j].args[1]
                        ELSE IF atom.args[n] \in OtherVariables(<<i, j>>)
                        THEN atom.args[n] \o "_mc" \o ToString(SiteCounter(<<i, j>>))
                        ELSE atom.args[n]],
                     atom.negated)]

\* C27: within one expand_meets_condition call every expansion of a known
\* condition gets a distinct, increasing counter value, the condition's
\* first variable is replaced by E in every atom and every other variable
\* of the condition is suffixed with that counter, so the variables two
\* different expansions introduce are never equal, also for two expansions
\* of one condition in one rule.
C27_FresheningUniqueness ==
    pc = "ready" =>
        /\ \A i \in 1..Len(rules) :
              expand_meets_condition(rules, conditions)[i].body =
                  Concat([j \in 1..Len(rules[i].body) |-> SiteAtoms(i, j)],
                         1, Len(rules[i].body))
        /\ \A x, y \in ExpansionSites :
              /\ SiteBefore(x, y) => SiteCounter(x) < SiteCounter(y)
              /\ x # y => IntroducedVariables(x) \cap IntroducedVariables(y) = {}

\* C27 witness: the Evaluator is built from rules of which one names the
\* same condition twice, and the condition has a variable besides its first.
C27_Witness ==
    /\ pc = "ready"
    /\ \E x, y \in ExpansionSites :
          /\ x[1] = y[1]
          /\ x[2] < y[2]
          /\ SiteFacts(x) = SiteFacts(y)
          /\ IntroducedVariables(x) # {}
          /\ SiteCounter(x) > 0

\* C29: after expand_meets_condition(rules, conditions) every
\* meets_condition/2 atom left in a rule body names a condition id that is
\* not a key of conditions, the atoms that came from the required facts of
\* an expanded condition included.
C29_CompleteExpansion ==
    pc = "ready" =>
        \A i \in 1..Len(rules) :
            LET body == expand_meets_condition(rules, conditions)[i].body
            IN  \A j \in 1..Len(body) :
                    (body[j].pred = "meets_condition" /\ Len(body[j].args) = 2)
                        => StripQuotes(body[j].args[2]) \notin DOMAIN conditions

\* the numbers two numerals denote compare as the builtin pred says
NumericComparison(pred, a_raw, b_raw) ==
    LET a == DecimalValue(a_raw, 1, <<0, 0>>)
        b == DecimalValue(b_raw, 1, <<0, 0>>)
    IN  \/ pred = "ge" /\ ~WideLess(a, b)
        \/ pred = "gt" /\ WideLess(b, a)
        \/ pred = "le" /\ ~WideLess(b, a)
        \/ pred = "lt" /\ WideLess(a, b)
        \/ pred = "eq" /\ a = b
        \/ pred = "ne" /\ a # b

\* C28: for ground arguments a and b that both parse as numbers each of ge,
\* gt, le, lt, eq, ne is the numeric comparison of the two numbers; when
\* parsing fails eq holds iff a and b are the same string, ne iff they
\* differ, and ge, gt, le, lt are false; a builtin atom reached with a
\* non-ground argument yields nothing.
C28_BuiltinComparison ==
    builtin_matches.called =>
        LET atom == builtin_atom[1]
            a == atom.args[1]
            b == atom.args[2]
            value == (builtin_matches.result # {}) # atom.negated
        IN  IF AnyVar(atom.args) THEN builtin_matches.result = {}
            ELSE IF IsNumeral(a) /\ IsNumeral(b)
            THEN value <=> NumericComparison(atom.pred, a, b)
            ELSE value <=> \/ atom.pred = "eq" /\ a = b
                           \/ atom.pred = "ne" /\ a # b

====
